---- MODULE Spec2Model ----
(***************************************************************************)
(* Model of the SortScript ordering engine                                 *)
(* (src/src/core/fileOrderProcessor.ts, src/src/core/structure.ts).        *)
(*                                                                         *)
(* Strings are sequences of one-character strings, so that extname,        *)
(* basename, localeCompare, minimatch and RegExp.test are computed on the  *)
(* characters as the code computes them.  The alphabet is lower-case       *)
(* letters, digits and the punctuation of the order-file DSL; on it        *)
(* String.localeCompare agrees with the code-point order used here.  No    *)
(* name starts with a dot, where the injected path.extname of the tests    *)
(* and of node differ.                                                     *)
(***************************************************************************)
EXTENDS Integers, Sequences, FiniteSets, TLC

\* ------------------------------------------------------------------------
\* Characters and strings
\* ------------------------------------------------------------------------

\* The characters of the model in code-point order.
Alphabet ==
  << "*", ".", "/", "0", "1", "2", "@", "^", "_",
     "a", "b", "c", "d", "e", "f", "g", "h", "i", "j", "k", "l", "m",
     "n", "o", "p", "q", "r", "s", "t", "u", "v", "w", "x", "y", "z" >>

Code == [c \in {Alphabet[i] : i \in DOMAIN Alphabet} |->
           CHOOSE i \in DOMAIN Alphabet : Alphabet[i] = c]

Sign(n) == IF n < 0 THEN -1 ELSE IF n > 0 THEN 1 ELSE 0

EmptyStr == << >>

startsWith(s, p) == Len(p) <= Len(s) /\ SubSeq(s, 1, Len(p)) = p

endsWith(s, p) == Len(p) <= Len(s) /\ SubSeq(s, Len(s) - Len(p) + 1, Len(s)) = p

includes(s, c) == \E i \in DOMAIN s : s[i] = c

\* String.prototype.lastIndexOf for a single character, 1-based; 0 when absent.
lastIndexOf(s, c) ==
  IF includes(s, c) THEN CHOOSE i \in DOMAIN s : s[i] = c /\ \A j \in DOMAIN s : s[j] = c => j <= i
  ELSE 0

\* String.prototype.indexOf for a single character, 1-based; 0 when absent.
indexOf(s, c) ==
  IF includes(s, c) THEN CHOOSE i \in DOMAIN s : s[i] = c /\ \A j \in DOMAIN s : s[j] = c => j >= i
  ELSE 0

\* String.prototype.localeCompare on the model's alphabet: -1, 0 or 1.
RECURSIVE localeCompare(_, _)
localeCompare(a, b) ==
  IF a = << >> /\ b = << >> THEN 0
  ELSE IF a = << >> THEN -1
  ELSE IF b = << >> THEN 1
  ELSE IF Head(a) = Head(b) THEN localeCompare(Tail(a), Tail(b))
  ELSE Sign(Code[Head(a)] - Code[Head(b)])

\* Path.extname as injected: the suffix from the last dot, "" without a dot.
extname(p) ==
  LET i == lastIndexOf(p, ".") IN
  IF i = 0 THEN EmptyStr ELSE SubSeq(p, i, Len(p))

\* Path.basename(path, ext): the part after the last slash, less the suffix ext.
basename(p, ext) ==
  LET i == lastIndexOf(p, "/")
      b == SubSeq(p, i + 1, Len(p)) IN
  IF ext # EmptyStr /\ endsWith(b, ext) THEN SubSeq(b, 1, Len(b) - Len(ext)) ELSE b

\* Path.join: the non-empty parts joined by "/".
join(a, b) ==
  IF a = EmptyStr THEN b
  ELSE IF b = EmptyStr THEN a
  ELSE a \o << "/" >> \o b

\* Path.relative("/", to) as the engine calls it: the leading "/" removed.
relative(to) ==
  LET i == indexOf(to, "/") IN
  IF i = 0 THEN to ELSE SubSeq(to, 1, i - 1) \o SubSeq(to, i + 1, Len(to))

\* The segments of a path between slashes.
RECURSIVE Split(_)
Split(s) ==
  LET i == indexOf(s, "/") IN
  IF i = 0 THEN << s >>
  ELSE << SubSeq(s, 1, i - 1) >> \o Split(SubSeq(s, i + 1, Len(s)))

\* ------------------------------------------------------------------------
\* minimatch(path, pattern, { matchBase: true }) and RegExp
\* ------------------------------------------------------------------------

\* One path segment against one glob segment: "*" is any run of characters,
\* "?" any one character, anything else itself.
RECURSIVE GlobSeg(_, _)
GlobSeg(name, pat) ==
  IF pat = << >> THEN name = << >>
  ELSE IF Head(pat) = "*" THEN
    \E k \in 0..Len(name) : GlobSeg(SubSeq(name, k + 1, Len(name)), Tail(pat))
  ELSE IF name = << >> THEN FALSE
  ELSE IF Head(pat) = "?" THEN GlobSeg(Tail(name), Tail(pat))
  ELSE Head(name) = Head(pat) /\ GlobSeg(Tail(name), Tail(pat))

\* A segment starting with a dot is matched only by a pattern that starts with one.
SegMatch(name, pat) ==
  /\ (name # << >> /\ Head(name) = ".") => (pat # << >> /\ Head(pat) = ".")
  /\ GlobSeg(name, pat)

\* Segment lists; "**" stands for any number of segments.
RECURSIVE SegsMatch(_, _)
SegsMatch(fs, ps) ==
  IF ps = << >> THEN fs = << >>
  ELSE IF Head(ps) = << "*", "*" >> THEN
    \E k \in 0..Len(fs) : SegsMatch(SubSeq(fs, k + 1, Len(fs)), Tail(ps))
  ELSE fs # << >> /\ SegMatch(Head(fs), Head(ps)) /\ SegsMatch(Tail(fs), Tail(ps))

\* matchBase: a pattern without a slash is matched against the last segment.
minimatch(f, pattern) ==
  IF pattern = EmptyStr THEN f = EmptyStr
  ELSE IF ~includes(pattern, "/") THEN SegMatch(basename(f, EmptyStr), pattern)
  ELSE SegsMatch(Split(f), Split(pattern))

\* A regular expression "^(.*)text$": capture group 1 is what precedes the
\* final text.
IsCaptureBeforeSuffix(src) ==
  startsWith(src, << "^", "(", ".", "*", ")" >>) /\ src[Len(src)] = "$"

\* The text "^(.*)text$" ends with, its escapes removed.
SuffixOf(src) == SelectSeq(SubSeq(src, 6, Len(src) - 1), LAMBDA c : c # "\\")

\* new RegExp(src).test(s) for the regular expressions of the model: literal
\* text, optionally anchored at the start by "^", and "^(.*)text$".
RegExpTest(src, s) ==
  IF IsCaptureBeforeSuffix(src)
    THEN Len(SuffixOf(src)) <= Len(s)
         /\ SubSeq(s, Len(s) - Len(SuffixOf(src)) + 1, Len(s)) = SuffixOf(src)
  ELSE IF src # << >> /\ Head(src) = "^" THEN startsWith(s, Tail(src))
  ELSE \E i \in 0..(Len(s) - Len(src)) : SubSeq(s, i + 1, i + Len(src)) = src

\* s.match(new RegExp(src))[1], "" standing for no match and for undefined.
RegExpGroup1(src, s) ==
  IF IsCaptureBeforeSuffix(src) /\ RegExpTest(src, s)
  THEN SubSeq(s, 1, Len(s) - Len(SuffixOf(src)))
  ELSE << >>

\* ------------------------------------------------------------------------
\* The names the engine compares directive and tiebreaker names with
\* ------------------------------------------------------------------------

s_required == << "r", "e", "q", "u", "i", "r", "e", "d" >>

s_tiebreaker == << "t", "i", "e", "b", "r", "e", "a", "k", "e", "r" >>

s_group == << "g", "r", "o", "u", "p" >>

s_group_by == << "g", "r", "o", "u", "p", "_", "b", "y" >>

s_hidden == << "h", "i", "d", "d", "e", "n" >>

s_allow_if == << "a", "l", "l", "o", "w", "_", "i", "f" >>

s_disallow_if == << "d", "i", "s", "a", "l", "l", "o", "w", "_", "i", "f" >>

s_type == << "t", "y", "p", "e" >>

s_alphabetical == << "a", "l", "p", "h", "a", "b", "e", "t", "i", "c", "a", "l" >>

s_reverse_alphabetical == << "r", "e", "v", "e", "r", "s", "e", "_", "a", "l", "p", "h", "a", "b", "e", "t", "i", "c", "a", "l" >>

s_natural == << "n", "a", "t", "u", "r", "a", "l" >>

s_extension == << "e", "x", "t", "e", "n", "s", "i", "o", "n" >>

s_size == << "s", "i", "z", "e" >>

s_modified == << "m", "o", "d", "i", "f", "i", "e", "d" >>

s_created == << "c", "r", "e", "a", "t", "e", "d" >>

s_basename == << "b", "a", "s", "e", "n", "a", "m", "e" >>

s_folders == << "f", "o", "l", "d", "e", "r", "s" >>

s_groups == << "g", "r", "o", "u", "p", "s" >>

s_files == << "f", "i", "l", "e", "s" >>

s_at_folders == << "@", "f", "o", "l", "d", "e", "r", "s" >>

s_at_groups == << "@", "g", "r", "o", "u", "p", "s" >>

s_at_files == << "@", "f", "i", "l", "e", "s" >>

\* ------------------------------------------------------------------------
\* structure.ts: FileSystemItem, File, Directory, Group
\* ------------------------------------------------------------------------

\* A File: state is FileState.Normal after construction.
File(name, path) ==
  [kind |-> "File", name |-> name, path |-> path, state |-> "Normal", children |-> << >>]

Directory(name, path, children) ==
  [kind |-> "Directory", name |-> name, path |-> path, state |-> "Normal", children |-> children]

\* A Group has no path of its own (FileSystemItem.path is '').
Group(name, children) ==
  [kind |-> "Group", name |-> name, path |-> EmptyStr, state |-> "Normal", children |-> children]

\* ------------------------------------------------------------------------
\* parser: OrderFile, Statement, Directive (the AST the processor is given)
\* ------------------------------------------------------------------------

\* A directive argument: a string (identifier, string or regex literal text)
\* or a nested directive, of which the engine reads the name only.
StrArg(text) == [isDirective |-> FALSE, text |-> text]

DirArg(name) == [isDirective |-> TRUE, text |-> name]

Directive(name, args) == [name |-> name, args |-> args]

NoDirective == Directive(EmptyStr, << >>)

FilePattern(pattern, directives) ==
  [type |-> "filePattern", pattern |-> pattern, directives |-> directives,
   blockDirectives |-> << >>, block |-> << >>, groupName |-> EmptyStr, directive |-> NoDirective]

PathBlock(pattern, blockDirectives, block) ==
  [type |-> "pathBlock", pattern |-> pattern, directives |-> << >>,
   blockDirectives |-> blockDirectives, block |-> block, groupName |-> EmptyStr,
   directive |-> NoDirective]

GroupBlock(groupName, block) ==
  [type |-> "groupBlock", pattern |-> EmptyStr, directives |-> << >>,
   blockDirectives |-> << >>, block |-> block, groupName |-> groupName,
   directive |-> NoDirective]

DirectiveStatement(d) ==
  [type |-> "directive", pattern |-> EmptyStr, directives |-> << >>,
   blockDirectives |-> << >>, block |-> << >>, groupName |-> EmptyStr, directive |-> d]

\* ------------------------------------------------------------------------
\* Rule compilation: createPattern, parseTiebreakers, processStatements
\* ------------------------------------------------------------------------

\* An optional RegExp; defined = FALSE is undefined.
NoRegExp == [defined |-> FALSE, src |-> EmptyStr]

RegExp(src) == [defined |-> TRUE, src |-> src]

\* new RegExp(src) throws a SyntaxError on a source it cannot parse; of these
\* the model has the sources with a group or a class left open.
IsMalformedRegExp(src) ==
  \E i \in DOMAIN src :
    \/ src[i] = "(" /\ \A j \in (i + 1)..Len(src) : src[j] # ")"
    \/ src[i] = "[" /\ \A j \in (i + 1)..Len(src) : src[j] # "]"

\* The item that stands, in a listing, for the point where the call threw.
SyntaxError ==
  [kind |-> "SyntaxError", name |-> << >>, path |-> << >>, state |-> "Normal",
   children |-> << >>]

\* "/.../" : the text of a regex literal.
IsRegexLiteral(t) == startsWith(t, << "/" >>) /\ endsWith(t, << "/" >>)

\* arg.slice(1, -1)
Slice1(t) == SubSeq(t, 2, Len(t) - 1)

\* A "/.../" pattern becomes a RegExp, any other is joined to the base path.
createPattern(pattern, basePath) ==
  IF IsRegexLiteral(pattern)
  THEN [isRegExp |-> TRUE, src |-> Slice1(pattern)]
  ELSE [isRegExp |-> FALSE, src |-> join(basePath, pattern)]

\* Each argument's name or text, less a leading "@".
parseTiebreakers(args) ==
  [i \in DOMAIN args |->
     IF startsWith(args[i].text, << "@" >>) THEN Tail(args[i].text) ELSE args[i].text]

\* createPattern throws: new RegExp on a malformed "/.../" pattern.
createPatternThrows(pattern) ==
  IsRegexLiteral(pattern) /\ IsMalformedRegExp(Slice1(pattern))

isGlobPattern(pattern) ==
  includes(pattern, "*") \/ includes(pattern, "?") \/ includes(pattern, "[")

\* args && args[0]: a first argument that is not the empty string.
HasArg0(d) == Len(d.args) > 0 /\ (d.args[1].isDirective \/ d.args[1].text # EmptyStr)

\* The rule before its directives are read.  groupBy.kind is "none" (undefined),
\* "string" or "regexp"; an empty groupName is undefined.
NewRule(pattern) ==
  [pattern |-> pattern, isRequired |-> FALSE, tiebreakers |-> << >>,
   groupName |-> EmptyStr, groupBy |-> [kind |-> "none", src |-> EmptyStr],
   isHidden |-> FALSE, allowIf |-> NoRegExp, disallowIf |-> NoRegExp]

\* One case of the switch over directive.name; unknown names change nothing.
\* The argument of group, allow_if and disallow_if is a string in the model.
applyDirective(rule, d) ==
  IF d.name = s_required THEN [rule EXCEPT !.isRequired = TRUE]
  ELSE IF d.name = s_tiebreaker THEN [rule EXCEPT !.tiebreakers = parseTiebreakers(d.args)]
  ELSE IF d.name = s_group THEN
    IF HasArg0(d) THEN [rule EXCEPT !.groupName = d.args[1].text] ELSE rule
  ELSE IF d.name = s_group_by THEN
    IF ~HasArg0(d) THEN rule
    ELSE IF d.args[1].isDirective
      THEN [rule EXCEPT !.groupBy = [kind |-> "string", src |-> d.args[1].text]]
    ELSE IF IsRegexLiteral(d.args[1].text)
      THEN [rule EXCEPT !.groupBy = [kind |-> "regexp", src |-> Slice1(d.args[1].text)]]
    ELSE [rule EXCEPT !.groupBy =
            [kind |-> "string",
             src |-> IF startsWith(d.args[1].text, << "@" >>)
                     THEN Tail(d.args[1].text) ELSE d.args[1].text]]
  ELSE IF d.name = s_hidden THEN [rule EXCEPT !.isHidden = TRUE]
  ELSE IF d.name = s_allow_if THEN
    IF HasArg0(d) /\ IsRegexLiteral(d.args[1].text)
    THEN [rule EXCEPT !.allowIf = RegExp(Slice1(d.args[1].text))] ELSE rule
  ELSE IF d.name = s_disallow_if THEN
    IF HasArg0(d) /\ IsRegexLiteral(d.args[1].text)
    THEN [rule EXCEPT !.disallowIf = RegExp(Slice1(d.args[1].text))] ELSE rule
  ELSE rule

\* The case of the switch throws: new RegExp on a malformed "/.../" argument
\* of group_by, allow_if or disallow_if.
applyDirectiveThrows(d) ==
  /\ d.name \in {s_group_by, s_allow_if, s_disallow_if}
  /\ HasArg0(d)
  /\ ~d.args[1].isDirective
  /\ IsRegexLiteral(d.args[1].text)
  /\ IsMalformedRegExp(Slice1(d.args[1].text))

\* The loop over statement.directives.
RECURSIVE applyDirectives(_, _)
applyDirectives(rule, ds) ==
  IF ds = << >> THEN rule ELSE applyDirectives(applyDirective(rule, Head(ds)), Tail(ds))

\* threw: a statement of the scope made processStatements throw.
EmptyScope ==
  [rules |-> << >>, tiebreakers |-> << >>, explicitOrder |-> << >>, typeOrder |-> << >>,
   threw |-> FALSE]

\* Append x unless present (typeOrder.indexOf(x) === -1).
PushNew(seq, x) == IF \E i \in DOMAIN seq : seq[i] = x THEN seq ELSE Append(seq, x)

RECURSIVE processStatements(_, _)
RECURSIVE foldStatements(_, _, _)

\* The body of the loop over the statements, for one statement.
foldStatement(st, basePath, acc) ==
  IF st.type = "filePattern" THEN
    IF st.pattern = s_at_folders THEN [acc EXCEPT !.typeOrder = PushNew(@, s_folders)]
    ELSE IF st.pattern = s_at_groups THEN [acc EXCEPT !.typeOrder = PushNew(@, s_groups)]
    ELSE
      [acc EXCEPT
         !.explicitOrder =
            IF ~isGlobPattern(st.pattern) /\ Len(st.directives) = 0
            THEN Append(@, st.pattern) ELSE @,
         !.rules =
            Append(@, applyDirectives(NewRule(createPattern(st.pattern, basePath)),
                                      st.directives)),
         !.threw = \/ @
                   \/ createPatternThrows(st.pattern)
                   \/ \E k \in DOMAIN st.directives : applyDirectiveThrows(st.directives[k])]
  ELSE IF st.type = "directive" THEN
    IF st.directive.name = s_tiebreaker
      THEN [acc EXCEPT !.tiebreakers = parseTiebreakers(st.directive.args)]
    ELSE IF st.directive.name = s_type
      THEN [acc EXCEPT !.typeOrder = parseTiebreakers(st.directive.args)]
    ELSE acc
  ELSE IF st.type = "pathBlock" THEN
    IF st.pattern = EmptyStr THEN
      \* @root block: merged into the caller's scope
      LET rootBlockScope == processStatements(st.block, basePath) IN
      [acc EXCEPT
         !.tiebreakers = @ \o rootBlockScope.tiebreakers,
         !.rules = @ \o rootBlockScope.rules,
         !.explicitOrder = @ \o rootBlockScope.explicitOrder,
         !.typeOrder = IF Len(rootBlockScope.typeOrder) > 0 THEN rootBlockScope.typeOrder ELSE @,
         !.threw = @ \/ rootBlockScope.threw]
    ELSE acc
  ELSE \* groupBlock
    LET groupScope == processStatements(st.block, EmptyStr) IN
    [acc EXCEPT
       !.rules = Append(@, [NewRule([isRegExp |-> FALSE, src |-> EmptyStr]) EXCEPT
                              !.groupName = st.groupName,
                              !.tiebreakers = groupScope.tiebreakers]),
       !.threw = @ \/ groupScope.threw]

foldStatements(sts, basePath, acc) ==
  IF sts = << >> THEN acc
  ELSE foldStatements(Tail(sts), basePath, foldStatement(Head(sts), basePath, acc))

\* { rules, tiebreakers, explicitOrder, typeOrder } of one scope; tiebreakers
\* default to alphabetical when none is declared.
processStatements(statements, basePath) ==
  LET acc == foldStatements(statements, basePath, EmptyScope) IN
  IF Len(acc.tiebreakers) = 0 THEN [acc EXCEPT !.tiebreakers = << s_alphabetical >>] ELSE acc

\* ------------------------------------------------------------------------
\* Tiebreak comparator and sort: naturalCompare, applyTiebreakers
\* ------------------------------------------------------------------------

IsDigit(c) == c \in {"0", "1", "2"}

\* parseInt of a run of digits.
RECURSIVE parseInt(_)
parseInt(ds) ==
  IF ds = << >> THEN 0
  ELSE 10 * parseInt(SubSeq(ds, 1, Len(ds) - 1)) + (Code[ds[Len(ds)]] - Code["0"])

\* Length of the maximal run at the head of s of characters that are all digits
\* or all non-digits.
RECURSIVE RunLen(_)
RunLen(s) ==
  IF Len(s) <= 1 THEN Len(s)
  ELSE IF IsDigit(s[1]) = IsDigit(s[2]) THEN 1 + RunLen(Tail(s)) ELSE 1

\* s.match(/(\d+)|(\D+)/g) || []
RECURSIVE Parts(_)
Parts(s) ==
  IF s = << >> THEN << >>
  ELSE LET n == RunLen(s) IN << SubSeq(s, 1, n) >> \o Parts(SubSeq(s, n + 1, Len(s)))

RECURSIVE naturalParts(_, _, _, _)
naturalParts(aParts, bParts, a, b) ==
  IF aParts = << >> \/ bParts = << >> THEN Len(a) - Len(b)
  ELSE LET aPart == Head(aParts)
           bPart == Head(bParts) IN
       IF IsDigit(aPart[1]) /\ IsDigit(bPart[1]) THEN
         IF parseInt(aPart) # parseInt(bPart) THEN parseInt(aPart) - parseInt(bPart)
         ELSE naturalParts(Tail(aParts), Tail(bParts), a, b)
       ELSE IF aPart # bPart THEN localeCompare(aPart, bPart)
       ELSE naturalParts(Tail(aParts), Tail(bParts), a, b)

naturalCompare(a, b) == naturalParts(Parts(a), Parts(b), a, b)

\* The kind name @type uses for an item.
TypeName(item) ==
  IF item.kind = "Group" THEN s_groups
  ELSE IF item.kind = "Directory" THEN s_folders ELSE s_files

\* Array.prototype.indexOf, 1-based; 0 when absent (-1 in the code).
SeqIndexOf(seq, x) ==
  IF \E i \in DOMAIN seq : seq[i] = x
  THEN CHOOSE i \in DOMAIN seq : seq[i] = x /\ \A j \in DOMAIN seq : seq[j] = x => j >= i
  ELSE 0

\* A comparator that would take a failed stat lookup for a stat of zeros.
tiebreakMissingAsZero(tiebreaker, a, b, stat) ==
  IF tiebreaker \in {s_size, s_modified, s_created} THEN
    (IF b.path \in DOMAIN stat THEN stat[b.path].size ELSE 0)
      - (IF a.path \in DOMAIN stat THEN stat[a.path].size ELSE 0)
  ELSE IF tiebreaker = s_reverse_alphabetical THEN localeCompare(b.name, a.name)
  ELSE localeCompare(a.name, b.name)

\* One tiebreaker applied to a pair; stat is the injected Fs: a function from
\* paths to { size, mtimeMs, birthtimeMs }, statSync throwing outside its
\* domain, which the comparator turns into 0.
tiebreak(tiebreaker, a, b, stat) ==
  IF tiebreaker = s_alphabetical THEN localeCompare(a.name, b.name)
  ELSE IF tiebreaker = s_reverse_alphabetical THEN localeCompare(b.name, a.name)
  ELSE IF tiebreaker = s_natural THEN naturalCompare(a.name, b.name)
  ELSE IF tiebreaker = s_extension THEN localeCompare(extname(a.name), extname(b.name))
  ELSE IF tiebreaker \in {s_size, s_modified, s_created} THEN
    IF a.path \in DOMAIN stat /\ b.path \in DOMAIN stat THEN
      IF tiebreaker = s_size THEN stat[b.path].size - stat[a.path].size
      ELSE IF tiebreaker = s_modified THEN stat[b.path].mtimeMs - stat[a.path].mtimeMs
      ELSE stat[b.path].birthtimeMs - stat[a.path].birthtimeMs
    ELSE 0
  ELSE 0

\* A comparator that would stop after its first tiebreaker.
tiebreakByFirstKey(tiebreakers, a, b, stat) ==
  IF tiebreakers = << >> THEN 0 ELSE tiebreak(Head(tiebreakers), a, b, stat)

\* The loop over the tiebreakers: the first non-zero result, else 0.
RECURSIVE tiebreakLoop(_, _, _, _)
tiebreakLoop(tiebreakers, a, b, stat) ==
  IF tiebreakers = << >> THEN 0
  ELSE LET result == tiebreak(Head(tiebreakers), a, b, stat) IN
       IF result # 0 THEN result ELSE tiebreakLoop(Tail(tiebreakers), a, b, stat)

\* The comparator passed to files.sort.
compare(a, b, tiebreakers, typeOrder, stat) ==
  LET aIndex == SeqIndexOf(typeOrder, TypeName(a))
      bIndex == SeqIndexOf(typeOrder, TypeName(b)) IN
  IF Len(typeOrder) > 0 /\ aIndex # 0 /\ bIndex # 0 /\ aIndex # bIndex
  THEN aIndex - bIndex
  ELSE tiebreakLoop(tiebreakers, a, b, stat)

\* x inserted into the sorted list after every element that does not compare
\* greater than it.
RECURSIVE insertSorted(_, _, _, _, _)
insertSorted(sorted, x, tiebreakers, typeOrder, stat) ==
  IF sorted = << >> THEN << x >>
  ELSE LET last == sorted[Len(sorted)] IN
       IF compare(last, x, tiebreakers, typeOrder, stat) <= 0 THEN Append(sorted, x)
       ELSE Append(insertSorted(SubSeq(sorted, 1, Len(sorted) - 1), x,
                                tiebreakers, typeOrder, stat), last)

\* files.sort(comparator): Array.prototype.sort is stable.
RECURSIVE applyTiebreakers(_, _, _, _)
applyTiebreakers(files, tiebreakers, typeOrder, stat) ==
  IF files = << >> THEN << >>
  ELSE insertSorted(applyTiebreakers(SubSeq(files, 1, Len(files) - 1),
                                     tiebreakers, typeOrder, stat),
                    files[Len(files)], tiebreakers, typeOrder, stat)

\* ------------------------------------------------------------------------
\* Rule application: getGroupKey, applyRulesToChildren
\* ------------------------------------------------------------------------

\* stripExtensions stopping after the last extension.
stripLastExtension(name) ==
  IF extname(name) = EmptyStr THEN name ELSE basename(name, extname(name))

\* The loop of getGroupKey: extensions stripped until extname is empty.
RECURSIVE stripExtensions(_)
stripExtensions(name) ==
  LET ext == extname(name) IN
  IF ext = EmptyStr THEN name ELSE stripExtensions(basename(name, ext))

\* For a RegExp the key is match[1], and "" when there is no match or the
\* capture is empty or undefined.
getGroupKey(file, groupBy) ==
  IF groupBy.kind = "string" THEN
    IF groupBy.src = s_basename THEN stripExtensions(file.name) ELSE groupBy.src
  ELSE RegExpGroup1(groupBy.src, file.name)

\* The path a rule's pattern is matched against.
filePathOf(item) == IF item.kind = "File" THEN relative(item.path) ELSE item.name

\* The filter of applyRulesToChildren for one item.
ruleMatches(rule, item) ==
  IF rule.pattern.isRegExp THEN RegExpTest(rule.pattern.src, filePathOf(item))
  ELSE minimatch(filePathOf(item), rule.pattern.src)

\* ruleState with allow_if read before disallow_if.
ruleStateAllowFirst(rule, name) ==
  IF rule.allowIf.defined THEN
    IF RegExpTest(rule.allowIf.src, name) THEN "Normal" ELSE "Disallowed"
  ELSE IF rule.disallowIf.defined /\ RegExpTest(rule.disallowIf.src, name) THEN "Disallowed"
  ELSE "Normal"

\* The state a rule gives a matched file that it does not hide.
ruleState(rule, name) ==
  IF rule.disallowIf.defined /\ RegExpTest(rule.disallowIf.src, name) THEN "Disallowed"
  ELSE IF rule.allowIf.defined THEN
    IF RegExpTest(rule.allowIf.src, name) THEN "Normal" ELSE "Disallowed"
  ELSE "Normal"

\* groups.get(key).children.push(i), creating the Group when the key is new.
addToGroup(groups, key, i) ==
  IF \E g \in DOMAIN groups : groups[g].key = key
  THEN [g \in DOMAIN groups |->
          IF groups[g].key = key
          THEN [groups[g] EXCEPT !.members = Append(@, i)] ELSE groups[g]]
  ELSE Append(groups, [key |-> key, members |-> << i >>])

\* applyRuleToFile without the branch for hidden rules: the file is listed.
applyRuleToFileListingHidden(rule, i, acc) ==
  [acc EXCEPT !.ordered = Append(@, i), !.processed = @ \cup {i}]

\* The body of the loop over matchedFiles for the file at index i.  acc holds
\* the items (whose state the loop assigns), the set processedItems, the map
\* groups and the list orderedChildren, the last three by index into items.
\* state is assigned to Files only: on a Directory or a Group it is no field
\* of the class and nothing reads it.
applyRuleToFile(rule, i, acc) ==
  IF rule.isHidden THEN [acc EXCEPT !.processed = @ \cup {i}]
  ELSE
    LET file == acc.items[i]
        marked == IF file.kind = "File"
                  THEN [acc EXCEPT !.items[i].state = ruleState(rule, file.name)]
                  ELSE acc IN
    IF rule.groupName # EmptyStr THEN
      [marked EXCEPT !.groups = addToGroup(@, rule.groupName, i),
                     !.processed = @ \cup {i}]
    ELSE IF rule.groupBy.kind # "none" THEN
      LET groupKey == getGroupKey(file, rule.groupBy) IN
      IF groupKey # EmptyStr
      THEN [marked EXCEPT !.groups = addToGroup(@, groupKey, i),
                          !.processed = @ \cup {i}]
      ELSE marked
    ELSE [marked EXCEPT !.ordered = Append(@, i), !.processed = @ \cup {i}]

RECURSIVE applyRuleToFiles(_, _, _)
applyRuleToFiles(rule, matched, acc) ==
  IF matched = << >> THEN acc
  ELSE applyRuleToFiles(rule, Tail(matched), applyRuleToFile(rule, Head(matched), acc))

\* The indices in 1..n that satisfy Keep, ascending: Array.prototype.filter.
RECURSIVE FilterIdx(_, _)
FilterIdx(n, keep) ==
  IF n = 0 THEN << >>
  ELSE IF n \in keep THEN Append(FilterIdx(n - 1, keep), n) ELSE FilterIdx(n - 1, keep)

\* The loop over the rules.
RECURSIVE applyRules(_, _)
applyRules(rules, acc) ==
  IF rules = << >> THEN acc
  ELSE
    LET rule == Head(rules)
        matchedFiles ==
          FilterIdx(Len(acc.items),
                    {i \in DOMAIN acc.items :
                       i \notin acc.processed /\ ruleMatches(rule, acc.items[i])}) IN
    applyRules(Tail(rules), applyRuleToFiles(rule, matchedFiles, acc))

\* Array.from(groups.keys()).sort(): the keys in code-unit order.
RECURSIVE sortKeys(_)
sortKeys(keys) ==
  IF keys = {} THEN << >>
  ELSE LET k == CHOOSE k \in keys : \A o \in keys : localeCompare(k, o) <= 0 IN
       << k >> \o sortKeys(keys \ {k})

\* The items of a list of indices into items.
itemsAt(items, idx) == [k \in DOMAIN idx |-> items[idx[k]]]

\* The Groups of the map, by sorted key, each with its members sorted.
groupItemsOf(acc, sortedGroupKeys, incomingTiebreakers, typeOrder, stat) ==
  [k \in DOMAIN sortedGroupKeys |->
     Group(sortedGroupKeys[k],
           applyTiebreakers(
             itemsAt(acc.items,
                     (CHOOSE g \in {acc.groups[j] : j \in DOMAIN acc.groups} :
                        g.key = sortedGroupKeys[k]).members),
             incomingTiebreakers, typeOrder, stat))]

\* What applyRulesToChildren does once the loop over the rules has run.
collectRuleResults(acc, incomingTiebreakers, typeOrder, stat) ==
  [orderedChildren |->
     applyTiebreakers(
       itemsAt(acc.items, acc.ordered)
         \o groupItemsOf(acc, sortKeys({acc.groups[g].key : g \in DOMAIN acc.groups}),
                         incomingTiebreakers, typeOrder, stat),
       incomingTiebreakers, typeOrder, stat),
   remainingChildren |->
     itemsAt(acc.items, FilterIdx(Len(acc.items), DOMAIN acc.items \ acc.processed))]

applyRulesToChildren(children, rules, incomingTiebreakers, typeOrder, stat) ==
  collectRuleResults(applyRules(rules, [items |-> children, processed |-> {},
                                        groups |-> << >>, ordered |-> << >>]),
                     incomingTiebreakers, typeOrder, stat)

\* ------------------------------------------------------------------------
\* processChildren, findMatchingPathBlock, processDirectory, orderFiles
\* ------------------------------------------------------------------------

\* An optional tiebreaker list (incomingTiebreakers?: string[]).
NoTiebreakers == [defined |-> FALSE, value |-> << >>]

\* seq without its i-th element: Array.prototype.splice(i, 1).
RemoveAt(seq, i) == SubSeq(seq, 1, i - 1) \o SubSeq(seq, i + 1, Len(seq))

\* children.findIndex((f) => f.name === pattern), 1-based; 0 when absent.
findIndexByName(children, pattern) ==
  IF \E i \in DOMAIN children : children[i].name = pattern
  THEN CHOOSE i \in DOMAIN children :
         children[i].name = pattern /\ \A j \in 1..(i - 1) : children[j].name # pattern
  ELSE 0

\* A group block that would hold its members in the order of the children.
takeGroupMembersInChildOrder(patterns, acc) ==
  [children |-> SelectSeq(acc.children,
                          LAMBDA c : \A i \in DOMAIN patterns : patterns[i] # c.name),
   members |-> acc.members \o
               SelectSeq(acc.children,
                         LAMBDA c : \E i \in DOMAIN patterns : patterns[i] = c.name)]

\* The loop over the member patterns of one group block: acc.children loses
\* the members found, acc.members collects them.
RECURSIVE takeGroupMembers(_, _)
takeGroupMembers(patterns, acc) ==
  IF patterns = << >> THEN acc
  ELSE LET fileIndex == findIndexByName(acc.children, Head(patterns)) IN
       takeGroupMembers(Tail(patterns),
         IF fileIndex > 0
         THEN [children |-> RemoveAt(acc.children, fileIndex),
               members |-> Append(acc.members, acc.children[fileIndex])]
         ELSE acc)

\* The loop over the group blocks of a scope.
RECURSIVE takeGroupBlocks(_, _)
takeGroupBlocks(groupBlocks, acc) ==
  IF groupBlocks = << >> THEN acc
  ELSE LET block == Head(groupBlocks)
           groupFilePatterns == [k \in DOMAIN block.block |-> block.block[k].pattern]
           taken == takeGroupMembers(groupFilePatterns,
                                     [children |-> acc.children, members |-> << >>]) IN
       takeGroupBlocks(Tail(groupBlocks),
         [children |-> taken.children,
          groups |-> IF Len(taken.members) > 0
                     THEN Append(acc.groups, Group(block.groupName, taken.members))
                     ELSE acc.groups])

\* The statements of a list that satisfy a type test, in order.
RECURSIVE filterStatements(_, _)
filterStatements(statements, types) ==
  IF statements = << >> THEN << >>
  ELSE IF Head(statements).type \in types
    THEN << Head(statements) >> \o filterStatements(Tail(statements), types)
  ELSE filterStatements(Tail(statements), types)

\* explicitIndices taking the children in the order of the snapshot instead of
\* the order of the listing.
explicitIndicesInSnapshotOrder(explicitOrder, children, taken) ==
  FilterIdx(Len(children),
            {i \in DOMAIN children :
               \E k \in DOMAIN explicitOrder : minimatch(children[i].name, explicitOrder[k])})

\* "Handle explicit order first": the indices of the children taken by the
\* explicit order, in the order taken.
RECURSIVE explicitIndices(_, _, _)
explicitIndices(explicitOrder, children, taken) ==
  IF explicitOrder = << >> THEN taken
  ELSE LET pattern == Head(explicitOrder)
           seen == {taken[k] : k \in DOMAIN taken}
           hits == FilterIdx(Len(children),
                             {i \in DOMAIN children :
                                i \notin seen /\ minimatch(children[i].name, pattern)}) IN
       explicitIndices(Tail(explicitOrder), children, taken \o hits)

\* assembleChildren without the children no rule matched.
assembleWithoutLeftovers(groups, explicitlyOrderedItems, applied, finalTiebreakers, typeOrder, stat) ==
  groups \o explicitlyOrderedItems \o applied.orderedChildren

\* The end of processChildren: the rules applied to what the explicit order
\* left, the leftovers sorted, and the four parts concatenated.
assembleChildren(groups, explicitlyOrderedItems, applied, finalTiebreakers, typeOrder, stat) ==
  groups \o explicitlyOrderedItems \o applied.orderedChildren
    \o applyTiebreakers(applied.remainingChildren, finalTiebreakers, typeOrder, stat)

\* orderRemaining with the rules applied to every child, the explicitly
\* ordered ones included.
orderRemainingRulesOverAll(groups, children, explicitIdx, scope, finalTiebreakers, stat) ==
  assembleChildren(
    groups,
    itemsAt(children, explicitIdx),
    applyRulesToChildren(children, scope.rules, finalTiebreakers, scope.typeOrder, stat),
    finalTiebreakers, scope.typeOrder, stat)

\* processChildren after the explicit order has taken the children at explicitIdx.
orderRemaining(groups, children, explicitIdx, scope, finalTiebreakers, stat) ==
  assembleChildren(
    groups,
    itemsAt(children, explicitIdx),
    applyRulesToChildren(
      itemsAt(children,
              FilterIdx(Len(children),
                        DOMAIN children \ {explicitIdx[k] : k \in DOMAIN explicitIdx})),
      scope.rules, finalTiebreakers, scope.typeOrder, stat),
    finalTiebreakers, scope.typeOrder, stat)

\* processChildren after the group blocks have taken their members; nothing
\* is ordered when processStatements threw.
orderInScope(blocks, scope, incomingTiebreakers, stat) ==
  IF scope.threw THEN << SyntaxError >> ELSE
  orderRemaining(blocks.groups, blocks.children,
                 explicitIndices(scope.explicitOrder, blocks.children, << >>),
                 scope,
                 IF incomingTiebreakers.defined
                 THEN incomingTiebreakers.value ELSE scope.tiebreakers,
                 stat)

processChildren(children, statements, basePath, incomingTiebreakers, stat) ==
  orderInScope(takeGroupBlocks(filterStatements(statements, {"groupBlock"}),
                               [children |-> children, groups |-> << >>]),
               processStatements(statements, basePath),
               incomingTiebreakers, stat)

\* pattern.endsWith("/") ? pattern.slice(0, -1) : pattern
stripSlash(pattern) ==
  IF endsWith(pattern, << "/" >>) THEN SubSeq(pattern, 1, Len(pattern) - 1) ELSE pattern

\* The first path block whose pattern matches the item's path; found = FALSE
\* is undefined.
RECURSIVE findMatchingPathBlock(_, _)
findMatchingPathBlock(itemName, statements) ==
  IF statements = << >> THEN [found |-> FALSE, block |-> << >>]
  ELSE IF /\ Head(statements).type = "pathBlock"
          /\ minimatch(itemName, stripSlash(Head(statements).pattern))
    THEN [found |-> TRUE, block |-> Head(statements).block]
  ELSE findMatchingPathBlock(itemName, Tail(statements))

\* The filter that selects the children a path block claims.
blockMatches(block, basePath, c) ==
  LET blockPattern == createPattern(block.pattern, basePath)
      childPath == join(basePath, c.name) IN
  IF blockPattern.isRegExp THEN RegExpTest(blockPattern.src, childPath)
  ELSE minimatch(childPath, stripSlash(blockPattern.src))

\* The tiebreakers of the last tiebreaker directive of a block header.
RECURSIVE blockTiebreakersOf(_, _)
blockTiebreakersOf(blockDirectives, found) ==
  IF blockDirectives = << >> THEN found
  ELSE blockTiebreakersOf(Tail(blockDirectives),
         IF Head(blockDirectives).name = s_tiebreaker
         THEN [defined |-> TRUE, value |-> parseTiebreakers(Head(blockDirectives).args)]
         ELSE found)

\* The body of the loop over the path blocks for a block that claims the
\* children at matchingIdx.
claimChildren(block, children, matchingIdx, basePath, stat, acc) ==
  IF createPatternThrows(block.pattern)
  THEN [acc EXCEPT !.ordered = Append(@, SyntaxError)]
  ELSE IF Len(matchingIdx) > 0
  THEN [processed |-> acc.processed \cup {matchingIdx[k] : k \in DOMAIN matchingIdx},
        ordered |-> acc.ordered \o
                    processChildren(itemsAt(children, matchingIdx), block.block, basePath,
                                    blockTiebreakersOf(block.blockDirectives, NoTiebreakers),
                                    stat)]
  ELSE acc

\* The loop over the path blocks: acc.processed are the indices of the children
\* claimed so far, acc.ordered the children ordered so far.
RECURSIVE processPathBlocks(_, _, _, _, _)
processPathBlocks(pathBlocks, children, basePath, stat, acc) ==
  IF pathBlocks = << >> THEN acc
  ELSE processPathBlocks(Tail(pathBlocks), children, basePath, stat,
         claimChildren(Head(pathBlocks), children,
                       FilterIdx(Len(children),
                                 {i \in DOMAIN children :
                                    i \notin acc.processed
                                    /\ blockMatches(Head(pathBlocks), basePath, children[i])}),
                       basePath, stat, acc))

RECURSIVE processDirectory(_, _, _, _)

\* The body of the loop "Process subdirectories recursively" for one item.
processSubdirectory(item, pathBlock, basePath, stat) ==
  IF item.kind = "Directory"
  THEN processDirectory(item, IF pathBlock.found THEN pathBlock.block ELSE << >>,
                        join(basePath, item.name), stat)
  ELSE item

\* The loop "Process subdirectories recursively" over orderedChildren.
processSubdirectories(name, orderedChildren, statements, basePath, stat) ==
  Directory(name, EmptyStr,
    [k \in DOMAIN orderedChildren |->
       processSubdirectory(
         orderedChildren[k],
         findMatchingPathBlock(join(basePath, orderedChildren[k].name), statements),
         basePath, stat)])

\* processDirectory once the path blocks have claimed their children: the
\* other children are ordered by the other statements and appended.
orderUnclaimed(directory, statements, claimed, basePath, stat) ==
  processSubdirectories(
    directory.name,
    claimed.ordered \o
      processChildren(
        itemsAt(directory.children,
                FilterIdx(Len(directory.children),
                          DOMAIN directory.children \ claimed.processed)),
        filterStatements(statements, {"filePattern", "directive", "groupBlock"}),
        basePath, NoTiebreakers, stat),
    statements, basePath, stat)

processDirectory(directory, statements, basePath, stat) ==
  orderUnclaimed(directory, statements,
                 processPathBlocks(filterStatements(statements, {"pathBlock"}),
                                   directory.children, basePath, stat,
                                   [processed |-> {}, ordered |-> << >>]),
                 basePath, stat)

\* The tree holds the point where the call threw.
RECURSIVE HasThrown(_)
HasThrown(item) ==
  \/ item.kind = "SyntaxError"
  \/ \E i \in DOMAIN item.children : HasThrown(item.children[i])

\* A Directory the call did not descend into.
notReached(item) == IF item.kind = "Directory" THEN [item EXCEPT !.children = << >>] ELSE item

\* The part of the tree the call had ordered when it threw: the listing of a
\* directory up to the throw and, when the listing was completed, its
\* subdirectories up to the one that threw.
RECURSIVE untilThrown(_)
untilThrown(item) ==
  IF item.kind # "Directory" THEN item
  ELSE IF \E i \in DOMAIN item.children : item.children[i].kind = "SyntaxError"
  THEN [item EXCEPT !.children =
          [k \in 1..((CHOOSE i \in DOMAIN item.children :
                        /\ item.children[i].kind = "SyntaxError"
                        /\ \A j \in 1..(i - 1) : item.children[j].kind # "SyntaxError") - 1)
             |-> notReached(item.children[k])]]
  ELSE [item EXCEPT !.children =
          [k \in DOMAIN item.children |->
             IF \E j \in 1..(k - 1) : HasThrown(item.children[j])
             THEN notReached(item.children[k])
             ELSE untilThrown(item.children[k])]]

\* What the caller gets: the tree, or the SyntaxError that escaped.
returnOrThrow(tree) == IF HasThrown(tree) THEN SyntaxError ELSE tree

\* The run of orderFiles: the tree processDirectory builds, which holds
\* SyntaxError where a statement made it throw.
runOrderFiles(statements, directory, stat) ==
  processDirectory(directory, statements, EmptyStr, stat)

orderFiles(statements, directory, stat) ==
  returnOrThrow(runOrderFiles(statements, directory, stat))

\* ------------------------------------------------------------------------
\* validateRequiredFiles, getRequiredFilesFromStatements
\* ------------------------------------------------------------------------

\* One entry per required directive of a file pattern with a non-empty pattern.
RECURSIVE requiredOfDirectives(_, _)
requiredOfDirectives(pattern, directives) ==
  IF directives = << >> THEN << >>
  ELSE (IF Head(directives).name = s_required /\ pattern # EmptyStr
        THEN << pattern >> ELSE << >>)
       \o requiredOfDirectives(pattern, Tail(directives))

\* getRequiredFilesFromStatements without the descent into blocks.
RECURSIVE getRequiredFilesOfTopLevel(_)
getRequiredFilesOfTopLevel(statements) ==
  IF statements = << >> THEN << >>
  ELSE (IF Head(statements).type = "filePattern"
        THEN requiredOfDirectives(Head(statements).pattern, Head(statements).directives)
        ELSE << >>)
       \o getRequiredFilesOfTopLevel(Tail(statements))

RECURSIVE getRequiredFilesFromStatements(_)
getRequiredFilesFromStatements(statements) ==
  IF statements = << >> THEN << >>
  ELSE LET statement == Head(statements) IN
       (IF statement.type = "filePattern"
        THEN requiredOfDirectives(statement.pattern, statement.directives)
        ELSE IF statement.type \in {"pathBlock", "groupBlock"}
        THEN getRequiredFilesFromStatements(statement.block)
        ELSE << >>)
       \o getRequiredFilesFromStatements(Tail(statements))

\* searchDirectory: some File below dir, reached through Directories, matches.
RECURSIVE searchDirectory(_, _)
searchDirectory(dir, pattern) ==
  \E i \in DOMAIN dir.children :
    LET item == dir.children[i] IN
    IF item.kind = "File" THEN minimatch(relative(item.path), pattern)
    ELSE IF item.kind = "Directory" THEN searchDirectory(item, pattern)
    ELSE FALSE

RECURSIVE missingOf(_, _)
missingOf(requiredPatterns, directory) ==
  IF requiredPatterns = << >> THEN << >>
  ELSE (IF searchDirectory(directory, Head(requiredPatterns))
        THEN << >> ELSE << Head(requiredPatterns) >>)
       \o missingOf(Tail(requiredPatterns), directory)

validateRequiredFiles(statements, directory) ==
  missingOf(getRequiredFilesFromStatements(statements), directory)

\* ------------------------------------------------------------------------
\* Inputs: order files and directory snapshots
\* ------------------------------------------------------------------------

\* Most statements of one scope of an order file.
MaxStatements == 2

\* Most children of the snapshot's root directory.
MaxChildren == 3

\* Most times in a row the tree returned by orderFiles is passed to it again.
MaxReorders == 1

\* The sequences without repetition of at most n elements of S.
RECURSIVE SeqsUpTo(_, _)
SeqsUpTo(S, n) ==
  IF n = 0 THEN {<< >>}
  ELSE LET shorter == SeqsUpTo(S, n - 1) IN
       shorter \cup {Append(q, x) : <<q, x>> \in
                       {qx \in shorter \X S :
                          Len(qx[1]) = n - 1 /\ \A i \in DOMAIN qx[1] : qx[1][i] # qx[2]}}

\* The path of the snapshot's root, as the tests' createRoot sets it.
RootPath == << "/", "t", "e", "s", "t" >>

\* A file, and a directory of files, directly below the directory at path base.
FileIn(base, name) == File(name, base \o << "/" >> \o name)

DirIn(base, name, names) ==
  Directory(name, base \o << "/" >> \o name,
            [i \in DOMAIN names |-> FileIn(base \o << "/" >> \o name, names[i])])

n_a_txt == << "a", ".", "t", "x", "t" >>

n_b_txt == << "b", ".", "t", "x", "t" >>

n_c_txt == << "c", ".", "t", "x", "t" >>

n_z_txt == << "z", ".", "t", "x", "t" >>

n_app_log == << "a", "p", "p", ".", "l", "o", "g" >>

n_a_js == << "a", ".", "j", "s" >>

n_a_test_js == << "a", ".", "t", "e", "s", "t", ".", "j", "s" >>

n_c_js == << "c", ".", "j", "s" >>

n_b_js == << "b", ".", "j", "s" >>

n_a_md == << "a", ".", "m", "d" >>

n_b_md == << "b", ".", "m", "d" >>

n_c_md == << "c", ".", "m", "d" >>

n_docs == << "d", "o", "c", "s" >>

n_lib == << "l", "i", "b" >>

n_docs_slash == << "d", "o", "c", "s", "/" >>

n_glob_js == << "*", ".", "j", "s" >>

n_glob_log == << "*", ".", "l", "o", "g" >>

n_glob_md == << "*", ".", "m", "d" >>

n_star == << "*" >>

n_cfg == << "c", "f", "g" >>

n_re_test == << "/", "t", "e", "s", "t", "/" >>

n_re_start_a == << "/", "^", "a", "/" >>

n_re_a == << "/", "a", "/" >>

n_re_start_b == << "/", "^", "b", "/" >>

\* @name as a directive argument: a nested directive without arguments.
At(name) == DirArg(name)

\* The statements and the root entries the inputs are drawn from, by the
\* feature they exercise.  lib and docs list their files out of name order.
ExplicitFamily ==
  [statements |->
     { FilePattern(n_b_txt, << >>),
       FilePattern(n_a_txt, << >>),
       FilePattern(n_z_txt, << >>),
       DirectiveStatement(Directive(s_tiebreaker, << At(s_extension) >>)) },
   entries |->
     { FileIn(RootPath, n_a_txt), FileIn(RootPath, n_b_txt), FileIn(RootPath, n_c_txt),
       DirIn(RootPath, n_lib, << n_b_txt, n_a_txt >>) }]

RuleFamily ==
  [statements |->
     { FilePattern(n_glob_log, << Directive(s_hidden, << >>) >>),
       FilePattern(n_glob_js, << Directive(s_group_by, << At(s_basename) >>) >>),
       FilePattern(n_glob_js, << Directive(s_allow_if, << StrArg(n_re_start_a) >>),
                                 Directive(s_disallow_if, << StrArg(n_re_test) >>) >>),
       FilePattern(n_app_log, << >>) },
   entries |->
     { FileIn(RootPath, n_app_log), FileIn(RootPath, n_a_js), FileIn(RootPath, n_a_test_js),
       FileIn(RootPath, n_b_js) }]

BlockFamily ==
  [statements |->
     { PathBlock(n_docs_slash, << >>, << FilePattern(n_b_md, << >>),
                                         FilePattern(n_a_md, << >>) >>),
       FilePattern(n_b_md, << >>),
       DirectiveStatement(Directive(s_tiebreaker, << At(s_reverse_alphabetical) >>)),
       FilePattern(n_glob_md, << Directive(s_hidden, << >>) >>) },
   entries |->
     { DirIn(RootPath, n_docs, << n_c_md, n_a_md, n_b_md >>),
       DirIn(RootPath, n_lib, << n_b_md, n_a_md >>),
       FileIn(RootPath, n_a_md), FileIn(RootPath, n_b_md) }]

RequiredFamily ==
  [statements |->
     { FilePattern(n_a_txt, << Directive(s_required, << >>) >>),
       PathBlock(n_docs_slash, << >>,
                 << FilePattern(n_a_md, << Directive(s_required, << >>) >>) >>),
       GroupBlock(n_cfg, << FilePattern(n_b_txt, << Directive(s_required, << >>) >>) >>),
       FilePattern(n_lib, << Directive(s_required, << >>) >>) },
   entries |->
     { FileIn(RootPath, n_a_txt), FileIn(RootPath, n_b_txt),
       DirIn(RootPath, n_docs, << n_b_md, n_a_md >>),
       DirIn(RootPath, n_lib, << n_a_txt >>) }]

Families == { ExplicitFamily, RuleFamily, BlockFamily, RequiredFamily }

n_zed == << "z", "e", "d" >>

n_glob_txt == << "*", ".", "t", "x", "t" >>

\* Group blocks declared and listed out of name order, a second block of the
\* name cfg that lists a member of the first, and a rule that groups by name.
GroupFamily ==
  [statements |->
     { GroupBlock(n_zed, << FilePattern(n_b_txt, << >>), FilePattern(n_a_txt, << >>) >>),
       GroupBlock(n_cfg, << FilePattern(n_c_txt, << >>), FilePattern(n_lib, << >>) >>),
       GroupBlock(n_cfg, << FilePattern(n_a_txt, << >>) >>),
       FilePattern(n_glob_txt, << Directive(s_group, << StrArg(n_cfg) >>) >>) },
   entries |->
     { FileIn(RootPath, n_a_txt), FileIn(RootPath, n_b_txt), FileIn(RootPath, n_c_txt),
       DirIn(RootPath, n_lib, << n_b_txt, n_a_txt >>) }]

n_a_css == << "a", ".", "c", "s", "s" >>

n_b_css == << "b", ".", "c", "s", "s" >>

\* @root { ... }: a path block whose pattern is empty.
RootBlock(block) == PathBlock(EmptyStr, << >>, block)

\* Tiebreaker declarations of two keys, at top level and inside @root, over
\* files that share names and extensions.
KeysFamily ==
  [statements |->
     { DirectiveStatement(Directive(s_tiebreaker, << At(s_extension), At(s_alphabetical) >>)),
       DirectiveStatement(Directive(s_tiebreaker, << At(s_alphabetical), At(s_extension) >>)),
       RootBlock(<< DirectiveStatement(Directive(s_tiebreaker,
                                                 << At(s_reverse_alphabetical) >>)) >>),
       RootBlock(<< DirectiveStatement(Directive(s_tiebreaker,
                                                 << At(s_extension), At(s_alphabetical) >>)) >>) },
   entries |->
     { FileIn(RootPath, n_a_css), FileIn(RootPath, n_b_css), FileIn(RootPath, n_a_js),
       FileIn(RootPath, n_b_js) }]

\* Tiebreakers declared in the header of the path block docs/ and on a rule,
\* at top level and inside the block.
ScopeFamily ==
  [statements |->
     { PathBlock(n_docs_slash, << Directive(s_tiebreaker, << At(s_reverse_alphabetical) >>) >>,
                 << >>),
       PathBlock(n_docs_slash, << Directive(s_tiebreaker, << At(s_reverse_alphabetical) >>) >>,
                 << FilePattern(n_b_md, << >>) >>),
       PathBlock(n_docs_slash, << >>,
                 << FilePattern(n_glob_md,
                                << Directive(s_tiebreaker,
                                             << At(s_reverse_alphabetical) >>) >>) >>),
       FilePattern(n_glob_md, << Directive(s_tiebreaker, << At(s_reverse_alphabetical) >>) >>) },
   entries |->
     { DirIn(RootPath, n_docs, << n_a_md, n_c_md, n_b_md >>),
       FileIn(RootPath, n_a_md), FileIn(RootPath, n_b_md), FileIn(RootPath, n_c_md) }]

\* A @type declaration that leaves folders unlisted, the category markers
\* @files and @folders, and a group block.
TypeFamily ==
  [statements |->
     { DirectiveStatement(Directive(s_type, << At(s_files), At(s_groups) >>)),
       FilePattern(s_at_files, << >>),
       FilePattern(s_at_folders, << >>),
       GroupBlock(n_cfg, << FilePattern(n_b_txt, << >>) >>) },
   entries |->
     { FileIn(RootPath, n_a_txt), FileIn(RootPath, n_b_txt), FileIn(RootPath, n_z_txt),
       DirIn(RootPath, n_lib, << n_b_txt, n_a_txt >>) }]

s_foo == << "f", "o", "o" >>

n_re_open == << "/", "(", "/" >>

\* A directive name the processor does not know, on a listed name and beside
\* @required, and a rule whose @allow_if argument is not a regular expression.
UnknownFamily ==
  [statements |->
     { FilePattern(n_b_txt, << Directive(s_foo, << >>) >>),
       FilePattern(n_a_txt, << >>),
       FilePattern(n_a_txt, << Directive(s_required, << >>), Directive(s_foo, << >>) >>),
       FilePattern(n_glob_txt, << Directive(s_allow_if, << StrArg(n_re_open) >>) >>) },
   entries |->
     { FileIn(RootPath, n_a_txt), FileIn(RootPath, n_b_txt), FileIn(RootPath, n_c_txt),
       DirIn(RootPath, n_lib, << n_b_txt, n_a_txt >>) }]

DirectiveFamilies == { GroupFamily, KeysFamily, ScopeFamily, TypeFamily, UnknownFamily }

\* ------------------------------------------------------------------------
\* State
\* ------------------------------------------------------------------------

VARIABLES
  orderFile,   \* FileOrderProcessor.orderFile.statements
  fs,          \* the injected Fs: path -> stat values
  snapshot,    \* the Directory the host built from the file system
  op,          \* the last public method called, "none" before the first call
  arg,         \* the Directory passed to that call
  result,      \* the Directory orderFiles returned
  missing,     \* the list validateRequiredFiles returned
  reorders,    \* how many times in a row a returned tree was ordered again
  dotOrder,    \* the .order file at the workspace root, as the host reads it
  orderProcessor  \* OrderedFileTreeDataProvider.orderProcessor: "null" or set

vars == << orderFile, fs, snapshot, op, arg, result, missing, reorders, dotOrder,
           orderProcessor >>

\* The host's fields, which the processor's own methods leave alone.
hostVars == << dotOrder, orderProcessor >>

\* No .order file at the workspace root.
Absent == [exists |-> FALSE, parses |-> FALSE, statements |-> << >>]

\* A .order file on which parseOrderFile returns null.
Unparsable == [exists |-> TRUE, parses |-> FALSE, statements |-> << >>]

\* A .order file that parses to the statements.
Parsed(statements) == [exists |-> TRUE, parses |-> TRUE, statements |-> statements]

\* No tree: before a call, and for the result of validateRequiredFiles.
NoTree == [kind |-> "None", name |-> EmptyStr, path |-> EmptyStr, state |-> "Normal",
           children |-> << >>]

\* The Files of a tree, inside Directories and Groups.
RECURSIVE FilesOf(_)
FilesOf(item) ==
  IF item.kind = "File" THEN {item}
  ELSE UNION {FilesOf(item.children[i]) : i \in DOMAIN item.children}

\* The File objects are shared by the tree passed to orderFiles and the tree it
\* returns: a state the call assigns shows in both.  tree with the states of
\* the Files of out.
RECURSIVE withStates(_, _)
withStates(tree, out) ==
  IF tree.kind = "File" THEN
    IF \E f \in FilesOf(out) : f.path = tree.path
    THEN [tree EXCEPT !.state = (CHOOSE f \in FilesOf(out) : f.path = tree.path).state]
    ELSE tree
  ELSE [tree EXCEPT !.children = [i \in DOMAIN tree.children |->
                                    withStates(tree.children[i], out)]]

\* statSync succeeds on every path of the snapshot.
RECURSIVE PathsOf(_)
PathsOf(item) ==
  {item.path} \cup UNION {PathsOf(item.children[i]) : i \in DOMAIN item.children}

StatOf(tree) == [p \in PathsOf(tree) |-> [size |-> 0, mtimeMs |-> 0, birthtimeMs |-> 0]]

InitOver(families) ==
  \E family \in families :
    \E statements \in SeqsUpTo(family.statements, MaxStatements) :
      \E children \in SeqsUpTo(family.entries, MaxChildren) :
        /\ orderFile = statements
        /\ snapshot = Directory(<< "r", "o", "o", "t" >>, RootPath, children)
        /\ fs = StatOf(snapshot)
        /\ op = "none"
        /\ arg = NoTree
        /\ result = NoTree
        /\ missing = << >>
        /\ reorders = 0
        /\ dotOrder = Absent
        /\ orderProcessor = "null"

Init == InitOver(Families)

\* The same program over the order files of DirectiveFamilies.
InitDirectives == InitOver(DirectiveFamilies)

\* processor.orderFiles(snapshot)
OrderFiles ==
  LET run == runOrderFiles(orderFile, snapshot, fs) IN
  /\ snapshot' = withStates(snapshot, untilThrown(run))
  /\ op' = "orderFiles"
  /\ arg' = snapshot'
  /\ result' = returnOrThrow(run)
  /\ missing' = << >>
  /\ reorders' = 0
  /\ UNCHANGED << orderFile, fs, hostVars >>

\* processor.orderFiles(result): the returned tree is ordered again.
ReorderFiles ==
  /\ op = "orderFiles"
  /\ result.kind = "Directory"
  /\ reorders < MaxReorders
  /\ LET run == runOrderFiles(orderFile, result, fs) IN
     /\ snapshot' = withStates(snapshot, untilThrown(run))
     /\ arg' = withStates(result, untilThrown(run))
     /\ result' = returnOrThrow(run)
  /\ reorders' = reorders + 1
  /\ UNCHANGED << orderFile, fs, op, missing, hostVars >>

\* processor.validateRequiredFiles(snapshot)
ValidateRequiredFiles ==
  /\ op' = "validateRequiredFiles"
  /\ arg' = snapshot
  /\ result' = NoTree
  /\ missing' = validateRequiredFiles(orderFile, snapshot)
  /\ reorders' = 0
  /\ UNCHANGED << orderFile, fs, snapshot, hostVars >>

Next == OrderFiles \/ ReorderFiles \/ ValidateRequiredFiles

Spec == Init /\ [][Next]_vars

SpecDirectives == InitDirectives /\ [][Next]_vars

\* ------------------------------------------------------------------------
\* Rules, scopes and stat lookups
\* ------------------------------------------------------------------------

\* Tiebreakers that read the injected Fs, alone and before a name key.
StatFamily ==
  [statements |->
     { DirectiveStatement(Directive(s_tiebreaker, << At(s_size) >>)),
       DirectiveStatement(Directive(s_tiebreaker, << At(s_size), At(s_alphabetical) >>)),
       DirectiveStatement(Directive(s_tiebreaker, << At(s_modified) >>)),
       DirectiveStatement(Directive(s_tiebreaker,
                                    << At(s_created), At(s_reverse_alphabetical) >>)) },
   entries |->
     { FileIn(RootPath, n_a_txt), FileIn(RootPath, n_b_txt), FileIn(RootPath, n_c_txt),
       FileIn(RootPath, n_z_txt) }]

\* statSync on the paths: each stat field grows with the first letter of the
\* file's name.
StatOn(paths) ==
  [p \in paths |-> [size |-> Code[p[Len(RootPath) + 2]],
                    mtimeMs |-> Code[p[Len(RootPath) + 2]],
                    birthtimeMs |-> Code[p[Len(RootPath) + 2]]]]

\* The injected Fs: statSync succeeds on every child, on none, or on all but
\* b.txt.
StatChoices(children) ==
  { StatOn({children[i].path : i \in DOMAIN children}),
    StatOn({}),
    StatOn({children[i].path : i \in DOMAIN children} \ {FileIn(RootPath, n_b_txt).path}) }

InitStat ==
  \E statements \in SeqsUpTo(StatFamily.statements, MaxStatements) :
    \E children \in SeqsUpTo(StatFamily.entries, MaxChildren) :
      \E stat \in StatChoices(children) :
        /\ orderFile = statements
        /\ snapshot = Directory(<< "r", "o", "o", "t" >>, RootPath, children)
        /\ fs = stat
        /\ op = "none"
        /\ arg = NoTree
        /\ result = NoTree
        /\ missing = << >>
        /\ reorders = 0
        /\ dotOrder = Absent
        /\ orderProcessor = "null"

n_re_capture_js ==
  << "/", "^", "(", ".", "*", ")", "\\", ".", "j", "s", "$", "/" >>

\* Rules that bucket files by basename and by a capture group, under a
\* declared tiebreaker, before a rule that hides.
BucketFamily ==
  [statements |->
     { FilePattern(n_glob_js, << Directive(s_group_by, << At(s_basename) >>) >>),
       DirectiveStatement(Directive(s_tiebreaker, << At(s_reverse_alphabetical) >>)),
       FilePattern(n_star, << Directive(s_group_by, << StrArg(n_re_capture_js) >>) >>),
       FilePattern(n_glob_md, << Directive(s_hidden, << >>) >>) },
   entries |->
     { FileIn(RootPath, n_a_js), FileIn(RootPath, n_b_js), FileIn(RootPath, n_a_md),
       FileIn(RootPath, n_a_test_js) }]

\* A listed name that the rules of the scope match as well, beside files
\* that only the rules match and one that nothing matches.
PrecedenceFamily ==
  [statements |->
     { FilePattern(n_b_js, << >>),
       FilePattern(n_glob_js, << Directive(s_hidden, << >>) >>),
       FilePattern(n_glob_js, << Directive(s_group, << StrArg(n_cfg) >>) >>),
       FilePattern(n_glob_js, << Directive(s_disallow_if, << StrArg(n_re_start_b) >>) >>) },
   entries |->
     { FileIn(RootPath, n_a_js), FileIn(RootPath, n_b_js), FileIn(RootPath, n_a_md),
       FileIn(RootPath, n_c_js) }]

\* docs/ blocks that hold one rule over *.md, around a docs directory whose
\* files the rule matches in part.
PathRuleFamily ==
  [statements |->
     { PathBlock(n_docs_slash, << >>,
                 << FilePattern(n_glob_md, << Directive(s_hidden, << >>) >>) >>),
       PathBlock(n_docs_slash, << >>,
                 << FilePattern(n_glob_md,
                                << Directive(s_disallow_if, << StrArg(n_re_a) >>) >>) >>),
       PathBlock(n_docs_slash, << >>,
                 << FilePattern(n_glob_md,
                                << Directive(s_group_by, << At(s_basename) >>) >>) >>),
       FilePattern(n_glob_js, << Directive(s_hidden, << >>) >>) },
   entries |->
     { DirIn(RootPath, n_docs, << n_b_md, n_a_md, n_a_js >>),
       FileIn(RootPath, n_a_md), FileIn(RootPath, n_a_js),
       DirIn(RootPath, n_lib, << n_a_md >>) }]

n_sub == << "s", "u", "b" >>

\* Declarations, a listing and a rule of the root scope, over directories that
\* no path block claims, one of which holds a directory of its own.
UnclaimedFamily ==
  [statements |->
     { DirectiveStatement(Directive(s_tiebreaker, << At(s_reverse_alphabetical) >>)),
       DirectiveStatement(Directive(s_type, << At(s_files), At(s_folders) >>)),
       FilePattern(n_b_md, << >>),
       FilePattern(n_glob_md, << Directive(s_hidden, << >>) >>) },
   entries |->
     { Directory(n_lib, RootPath \o << "/" >> \o n_lib,
                 << FileIn(RootPath \o << "/" >> \o n_lib, n_b_md),
                    DirIn(RootPath \o << "/" >> \o n_lib, n_sub, << n_b_md, n_a_md >>),
                    FileIn(RootPath \o << "/" >> \o n_lib, n_a_md) >>),
       DirIn(RootPath, n_docs, << n_b_md, n_a_md >>),
       FileIn(RootPath, n_a_md), FileIn(RootPath, n_b_md) }]

n_z_md == << "z", ".", "m", "d" >>

\* Type orders that list some of the kinds, over items of the three kinds.
KindFamily ==
  [statements |->
     { DirectiveStatement(Directive(s_type, << At(s_files), At(s_groups) >>)),
       DirectiveStatement(Directive(s_type, << At(s_folders) >>)),
       DirectiveStatement(Directive(s_tiebreaker, << At(s_reverse_alphabetical) >>)),
       FilePattern(n_glob_txt, << Directive(s_group, << StrArg(n_cfg) >>) >>) },
   entries |->
     { FileIn(RootPath, n_a_txt), FileIn(RootPath, n_z_md), FileIn(RootPath, n_a_md),
       DirIn(RootPath, n_lib, << n_b_txt, n_a_txt >>) }]

RuleFamilies ==
  { BucketFamily, PrecedenceFamily, PathRuleFamily, UnclaimedFamily, KindFamily }

InitRules == InitOver(RuleFamilies) \/ InitStat

SpecRules == InitRules /\ [][Next]_vars

\* ------------------------------------------------------------------------
\* Several processors over one snapshot
\* ------------------------------------------------------------------------

\* Rules that mark files by name, and a declaration that marks none.
SessionFamily ==
  [statements |->
     { FilePattern(n_glob_js, << Directive(s_disallow_if, << StrArg(n_re_a) >>) >>),
       FilePattern(n_glob_js, << Directive(s_allow_if, << StrArg(n_re_start_b) >>) >>),
       DirectiveStatement(Directive(s_tiebreaker, << At(s_reverse_alphabetical) >>)) },
   entries |->
     { FileIn(RootPath, n_a_js), FileIn(RootPath, n_b_js), FileIn(RootPath, n_a_md) }]

InitSessions == InitOver({SessionFamily})

\* processor = new FileOrderProcessor(ast, path, fs), for another AST; the
\* snapshot and its File objects stay.
NewProcessor ==
  /\ \E statements \in SeqsUpTo(SessionFamily.statements, MaxStatements) \ {orderFile} :
       orderFile' = statements
  /\ op' = "constructor"
  /\ UNCHANGED << fs, snapshot, arg, result, missing, reorders, hostVars >>

NextSessions == OrderFiles \/ ReorderFiles \/ ValidateRequiredFiles \/ NewProcessor

SpecSessions == InitSessions /\ [][NextSessions]_vars

\* ------------------------------------------------------------------------
\* The host: OrderedFileTreeDataProvider
\* ------------------------------------------------------------------------

\* The order files the user writes and the entries of the workspace root; the
\* host reads one level, so a directory comes without children.
HostFamily ==
  [statements |->
     { DirectiveStatement(Directive(s_tiebreaker, << At(s_reverse_alphabetical) >>)),
       FilePattern(n_b_md, << >>) },
   entries |->
     { FileIn(RootPath, n_a_md), FileIn(RootPath, n_b_md),
       Directory(n_lib, RootPath \o << "/" >> \o n_lib, << >>) }]

\* What the .order file may hold.
DotOrderChoices ==
  {Absent, Unparsable}
    \cup {Parsed(statements) : statements \in SeqsUpTo(HostFamily.statements, MaxStatements)}

\* loadOrderFile: a processor is built when the file exists and parses;
\* nothing is assigned otherwise.
loadOrderFile(file, processor) ==
  IF file.exists /\ file.parses
  THEN [orderProcessor |-> "FileOrderProcessor", statements |-> file.statements]
  ELSE processor

\* new OrderedFileTreeDataProvider(workspaceRoot): orderProcessor = null, then
\* loadOrderFile.
InitHost ==
  \E file \in DotOrderChoices :
    \E children \in SeqsUpTo(HostFamily.entries, MaxChildren) :
      /\ dotOrder = file
      /\ orderProcessor
           = loadOrderFile(file, [orderProcessor |-> "null", statements |-> << >>]).orderProcessor
      /\ orderFile
           = loadOrderFile(file, [orderProcessor |-> "null", statements |-> << >>]).statements
      /\ snapshot = Directory(<< "r", "o", "o", "t" >>, RootPath, children)
      /\ fs = StatOf(snapshot)
      /\ op = "none"
      /\ arg = NoTree
      /\ result = NoTree
      /\ missing = << >>
      /\ reorders = 0

\* The user writes, breaks or deletes the .order file.
WriteOrderFile ==
  /\ \E file \in DotOrderChoices \ {dotOrder} : dotOrder' = file
  /\ op' = "writeOrderFile"
  /\ UNCHANGED << orderFile, fs, snapshot, arg, result, missing, reorders, orderProcessor >>

\* provider.refresh()
Refresh ==
  /\ orderProcessor'
       = loadOrderFile(dotOrder, [orderProcessor |-> orderProcessor,
                                  statements |-> orderFile]).orderProcessor
  /\ orderFile'
       = loadOrderFile(dotOrder, [orderProcessor |-> orderProcessor,
                                  statements |-> orderFile]).statements
  /\ op' = "refresh"
  /\ UNCHANGED << fs, snapshot, arg, result, missing, reorders, dotOrder >>

\* provider.getChildren(): the root directory as read, ordered by the
\* processor when there is one.
GetChildren ==
  /\ op' = "getChildren"
  /\ arg' = snapshot
  /\ result' = IF orderProcessor = "null" THEN snapshot
               ELSE orderFiles(orderFile, snapshot, fs)
  /\ UNCHANGED << orderFile, fs, snapshot, missing, reorders, hostVars >>

NextHost == WriteOrderFile \/ Refresh \/ GetChildren

SpecHost == InitHost /\ [][NextHost]_vars

\* ------------------------------------------------------------------------
\* Properties
\* ------------------------------------------------------------------------

\* The names of a listing, in order.
NamesOf(listing) == [k \in DOMAIN listing |-> listing[k].name]

\* orderFiles has returned result for arg.
Ordered == op = "orderFiles" /\ result.kind = "Directory"

\* The statements are literal, directive-free file names, and possibly
\* @tiebreaker declarations.
IsExplicitScope(statements) ==
  \A i \in DOMAIN statements :
    \/ /\ statements[i].type = "filePattern"
       /\ statements[i].directives = << >>
       /\ ~isGlobPattern(statements[i].pattern)
    \/ /\ statements[i].type = "directive"
       /\ statements[i].directive.name = s_tiebreaker

\* The listed names that some child bears, in listing order.
RECURSIVE ListedPresent(_, _)
ListedPresent(statements, children) ==
  IF statements = << >> THEN << >>
  ELSE (IF Head(statements).type = "filePattern"
           /\ \E i \in DOMAIN children : children[i].name = Head(statements).pattern
        THEN << Head(statements).pattern >> ELSE << >>)
       \o ListedPresent(Tail(statements), children)

\* A listing is in the order of the keys: ascending names for alphabetical,
\* descending names for reverse_alphabetical, ascending extensions for
\* extension.
InKeyOrder(listing, keys) ==
  \A i, j \in DOMAIN listing :
    i < j =>
      IF keys = << s_alphabetical >>
      THEN localeCompare(listing[i].name, listing[j].name) < 0
      ELSE IF keys = << s_reverse_alphabetical >>
      THEN localeCompare(listing[i].name, listing[j].name) > 0
      ELSE /\ keys = << s_extension >>
           /\ localeCompare(extname(listing[i].name), extname(listing[j].name)) <= 0

\* C1: when the statements of the root scope are literal file names (and
\* tiebreaker declarations), the root listing starts with the children whose
\* names are listed, in listing order, absent names skipped, and continues
\* with every other child in tiebreaker order, alphabetical by default.
C1_ExplicitOrder ==
  (Ordered /\ IsExplicitScope(orderFile)) =>
    LET listed == ListedPresent(orderFile, arg.children)
        names == NamesOf(result.children)
        n == Len(listed) IN
    /\ Len(names) = Len(arg.children)
    /\ SubSeq(names, 1, n) = listed
    /\ {names[k] : k \in (n + 1)..Len(names)}
         = {arg.children[i].name : i \in DOMAIN arg.children}
             \ {listed[k] : k \in DOMAIN listed}
    /\ InKeyOrder(SubSeq(result.children, n + 1, Len(names)),
                  processStatements(orderFile, EmptyStr).tiebreakers)

\* b.txt, a.txt listed over a.txt, b.txt, c.txt enumerated in name order.
C1_Witness ==
  /\ Ordered
  /\ orderFile = << FilePattern(n_b_txt, << >>), FilePattern(n_a_txt, << >>) >>
  /\ NamesOf(arg.children) = << n_a_txt, n_b_txt, n_c_txt >>
  /\ NamesOf(result.children) = << n_b_txt, n_a_txt, n_c_txt >>

\* Directory before Group before File.
KindRank(item) ==
  IF item.kind = "Directory" THEN 1 ELSE IF item.kind = "Group" THEN 2 ELSE 3

\* No statement of the scope is a @type declaration.
NoTypeDirective(statements) ==
  \A i \in DOMAIN statements :
    statements[i].type = "directive" => statements[i].directive.name # s_type

\* C2: with no @type declaration in scope the root listing has every
\* Directory before every Group before every File, and under an empty AST the
\* items of one kind are in alphabetical order of their names.
C2_KindsThenKeys ==
  (Ordered /\ NoTypeDirective(orderFile)) =>
    /\ \A i, j \in DOMAIN result.children :
         i < j => KindRank(result.children[i]) <= KindRank(result.children[j])
    /\ orderFile = << >> =>
         \A i, j \in DOMAIN result.children :
           (i < j /\ result.children[i].kind = result.children[j].kind) =>
             localeCompare(result.children[i].name, result.children[j].name) < 0

\* The names a listing shows: those of its items and of the members of its
\* Groups.
RECURSIVE ShownNames(_)
ShownNames(listing) ==
  {listing[k].name : k \in DOMAIN listing}
    \cup UNION {ShownNames(listing[k].children) :
                  k \in {i \in DOMAIN listing : listing[i].kind = "Group"}}

\* The statement carries @hidden.
IsHiddenRule(st) ==
  st.type = "filePattern" /\ \E k \in DOMAIN st.directives : st.directives[k].name = s_hidden

\* The name is listed literally, without directives, in the scope.
IsListed(statements, name) ==
  \E i \in DOMAIN statements :
    /\ statements[i].type = "filePattern"
    /\ statements[i].directives = << >>
    /\ ~isGlobPattern(statements[i].pattern)
    /\ statements[i].pattern = name

\* The name is a member pattern of a group block of the scope.
IsGroupBlockMember(statements, name) ==
  \E i \in DOMAIN statements :
    /\ statements[i].type = "groupBlock"
    /\ \E k \in DOMAIN statements[i].block : statements[i].block[k].pattern = name

\* The first file-pattern statement of the scope whose pattern matches the
\* name carries @hidden.
FirstMatchHides(statements, name) ==
  \E i \in DOMAIN statements :
    /\ IsHiddenRule(statements[i])
    /\ minimatch(name, statements[i].pattern)
    /\ \A j \in 1..(i - 1) :
         statements[j].type = "filePattern" => ~minimatch(name, statements[j].pattern)

RECURSIVE Flatten(_)
Flatten(listing) ==
  IF listing = << >> THEN << >>
  ELSE << Head(listing) >>
       \o (IF Head(listing).kind = "Group" THEN Flatten(Head(listing).children) ELSE << >>)
       \o Flatten(Tail(listing))

\* How many times an item of that kind and name is shown in a listing.
Occurrences(item, listing) ==
  Cardinality({k \in DOMAIN Flatten(listing) :
                 /\ Flatten(listing)[k].kind = item.kind
                 /\ Flatten(listing)[k].name = item.name})

\* Some @hidden rule of the scope matches the name.
MatchesHiddenRule(statements, name) ==
  \E k \in DOMAIN statements :
    IsHiddenRule(statements[k]) /\ minimatch(name, statements[k].pattern)

\* Every child of the input listing that no @hidden rule of the scope matches
\* is shown exactly once in the output listing, and every File or Directory
\* the output shows is a child of the input.
KeepsChildren(statements, input, output) ==
  /\ \A i \in DOMAIN input :
       ~MatchesHiddenRule(statements, input[i].name) => Occurrences(input[i], output) = 1
  /\ \A k \in DOMAIN Flatten(output) :
       Flatten(output)[k].kind # "Group" =>
         Flatten(output)[k].name \in ShownNames(input)

\* The statements that order the directory of that name below the root: the
\* block of the first path block naming it, none without such a block.
RECURSIVE ScopeOfSubdirectory(_, _)
ScopeOfSubdirectory(statements, name) ==
  IF statements = << >> THEN << >>
  ELSE IF Head(statements).type = "pathBlock" /\ stripSlash(Head(statements).pattern) = name
    THEN Head(statements).block
  ELSE ScopeOfSubdirectory(Tail(statements), name)

DirectiveMatches(st, directiveName, text) ==
  \E k \in DOMAIN st.directives :
    /\ st.directives[k].name = directiveName
    /\ RegExpTest(Slice1(st.directives[k].args[1].text), text)

HasDirective(st, directiveName) ==
  \E k \in DOMAIN st.directives : st.directives[k].name = directiveName

\* The state the claim gives a file matched by the rule of statement st.
StateUnder(st, name) ==
  IF HasDirective(st, s_disallow_if) /\ DirectiveMatches(st, s_disallow_if, name)
  THEN "Disallowed"
  ELSE IF HasDirective(st, s_allow_if)
  THEN IF DirectiveMatches(st, s_allow_if, name) THEN "Normal" ELSE "Disallowed"
  ELSE "Normal"

\* Statement i is the first file-pattern statement whose pattern matches the name.
IsFirstMatch(statements, i, name) ==
  /\ statements[i].type = "filePattern"
  /\ minimatch(name, statements[i].pattern)
  /\ \A j \in 1..(i - 1) :
       statements[j].type = "filePattern" => ~minimatch(name, statements[j].pattern)

\* C5: a file of the root that the explicit order and the group blocks leave
\* to the rules has, in the output, the state its first matching rule gives
\* it when that rule does not hide it: Disallowed when the rule's disallow_if
\* matches the name; otherwise, with allow_if, Normal exactly when allow_if
\* matches; otherwise Normal.
C5_StateOfMatchedFile ==
  Ordered =>
    \A c \in DOMAIN arg.children, i \in DOMAIN orderFile :
      (/\ arg.children[c].kind = "File"
       /\ ~IsListed(orderFile, arg.children[c].name)
       /\ ~IsGroupBlockMember(orderFile, arg.children[c].name)
       /\ IsFirstMatch(orderFile, i, arg.children[c].name)
       /\ ~IsHiddenRule(orderFile[i]))
        => \A k \in DOMAIN Flatten(result.children) :
             (/\ Flatten(result.children)[k].kind = "File"
              /\ Flatten(result.children)[k].name = arg.children[c].name)
               => Flatten(result.children)[k].state
                    = StateUnder(orderFile[i], arg.children[c].name)

\* One rule with allow_if(/^a/) and disallow_if(/test/): a.js is allowed,
\* a.test.js is disallowed although allow_if matches it, b.js is disallowed.
C5_Witness ==
  /\ Ordered
  /\ orderFile = << FilePattern(n_glob_js, << Directive(s_allow_if, << StrArg(n_re_start_a) >>),
                                              Directive(s_disallow_if, << StrArg(n_re_test) >>) >>) >>
  /\ NamesOf(result.children) = << n_a_js, n_a_test_js, n_b_js >>
  /\ result.children[1].state = "Normal"
  /\ result.children[2].state = "Disallowed"
  /\ result.children[3].state = "Disallowed"

\* The name up to its first dot: the name with every extension stripped.
UpToFirstDot(name) ==
  IF \E i \in DOMAIN name : name[i] = "."
  THEN SubSeq(name, 1, (CHOOSE i \in DOMAIN name :
                          name[i] = "." /\ \A j \in 1..(i - 1) : name[j] # ".") - 1)
  ELSE name

\* The statement groups by basename and names no fixed group.
GroupsByBasename(st) ==
  /\ ~HasDirective(st, s_group)
  /\ \E k \in DOMAIN st.directives :
       /\ st.directives[k].name = s_group_by
       /\ parseTiebreakers(st.directives[k].args) = << s_basename >>

\* C6: a file of the root whose first matching rule is a group_by(basename)
\* rule is a member of the one Group of the root listing named by the file
\* name up to its first dot, and the members of that Group are in the order
\* of the scope tiebreakers.
C6_GroupByBasename ==
  Ordered =>
    \A c \in DOMAIN arg.children, i \in DOMAIN orderFile :
      (/\ arg.children[c].kind = "File"
       /\ ~IsListed(orderFile, arg.children[c].name)
       /\ ~IsGroupBlockMember(orderFile, arg.children[c].name)
       /\ IsFirstMatch(orderFile, i, arg.children[c].name)
       /\ ~IsHiddenRule(orderFile[i])
       /\ GroupsByBasename(orderFile[i]))
        => /\ Cardinality({k \in DOMAIN result.children :
                             /\ result.children[k].kind = "Group"
                             /\ result.children[k].name
                                  = UpToFirstDot(arg.children[c].name)}) = 1
           /\ \A k \in DOMAIN result.children :
                (/\ result.children[k].kind = "Group"
                 /\ result.children[k].name = UpToFirstDot(arg.children[c].name))
                  => /\ arg.children[c].name
                          \in {result.children[k].children[m].name :
                                 m \in DOMAIN result.children[k].children}
                     /\ InKeyOrder(result.children[k].children,
                                   processStatements(orderFile, EmptyStr).tiebreakers)
           /\ \A k \in DOMAIN result.children : result.children[k].name # arg.children[c].name

\* *.js @group_by(@basename) over a.js, a.test.js and b.js: Group a holds
\* a.js and a.test.js, Group b holds b.js.
C6_Witness ==
  /\ Ordered
  /\ orderFile = << FilePattern(n_glob_js, << Directive(s_group_by, << At(s_basename) >>) >>) >>
  /\ {arg.children[i].name : i \in DOMAIN arg.children} = {n_a_js, n_a_test_js, n_b_js}
  /\ Len(result.children) = 2
  /\ result.children[1].kind = "Group"
  /\ result.children[1].name = << "a" >>
  /\ NamesOf(result.children[1].children) = << n_a_js, n_a_test_js >>
  /\ result.children[2].kind = "Group"
  /\ result.children[2].name = << "b" >>
  /\ NamesOf(result.children[2].children) = << n_b_js >>

\* The statements of an AST at every depth, each block after its header.
RECURSIVE StatementsAtAnyDepth(_)
StatementsAtAnyDepth(statements) ==
  IF statements = << >> THEN << >>
  ELSE << Head(statements) >>
       \o StatementsAtAnyDepth(Head(statements).block)
       \o StatementsAtAnyDepth(Tail(statements))

\* The patterns of the file-pattern statements that carry @required, in order.
RECURSIVE RequiredPatterns(_)
RequiredPatterns(statements) ==
  IF statements = << >> THEN << >>
  ELSE (IF /\ Head(statements).type = "filePattern"
           /\ HasDirective(Head(statements), s_required)
        THEN << Head(statements).pattern >> ELSE << >>)
       \o RequiredPatterns(Tail(statements))

\* The nodes below a directory, at every depth.
RECURSIVE NodesBelow(_)
NodesBelow(dir) ==
  {dir.children[i] : i \in DOMAIN dir.children}
    \cup UNION {NodesBelow(dir.children[i]) : i \in DOMAIN dir.children}

\* The patterns of a list that the name of no node of the set matches.
RECURSIVE Unmatched(_, _)
Unmatched(patterns, nodes) ==
  IF patterns = << >> THEN << >>
  ELSE (IF \E n \in nodes : minimatch(n.name, Head(patterns))
        THEN << >> ELSE << Head(patterns) >>)
       \o Unmatched(Tail(patterns), nodes)

\* validateRequiredFiles has returned missing for arg.
Validated == op = "validateRequiredFiles"

\* C7 as stated: validateRequiredFiles returns the @required patterns of the
\* AST, from every depth, whose glob matches the name of no node, File or
\* Directory, of the snapshot tree.
C7_MissingNodes ==
  Validated =>
    missing = Unmatched(RequiredPatterns(StatementsAtAnyDepth(orderFile)), NodesBelow(arg))

\* C7 amended: validateRequiredFiles returns the @required patterns of the
\* AST, from every depth, whose glob matches the name of no File of the
\* snapshot tree; Directories are not candidates.
C7_MissingFiles ==
  Validated =>
    missing = Unmatched(RequiredPatterns(StatementsAtAnyDepth(orderFile)),
                        {n \in NodesBelow(arg) : n.kind = "File"})

\* a.txt required at the top and a.md required inside the docs/ block, over
\* a.txt and b.txt: a.md alone is reported.
C7_Witness ==
  /\ Validated
  /\ orderFile = << FilePattern(n_a_txt, << Directive(s_required, << >>) >>),
                    PathBlock(n_docs_slash, << >>,
                              << FilePattern(n_a_md, << Directive(s_required, << >>) >>) >>) >>
  /\ NamesOf(arg.children) = << n_a_txt, n_b_txt >>
  /\ missing = << n_a_md >>

\* The items of a set with distinct names, enumerated in the order of their names.
RECURSIVE InNameOrder(_)
InNameOrder(items) ==
  IF items = {} THEN << >>
  ELSE LET first == CHOOSE x \in items :
                      \A y \in items : localeCompare(x.name, y.name) <= 0 IN
       << first >> \o InNameOrder(items \ {first})

\* The same tree with the children of every directory enumerated in the
\* order of their names.
RECURSIVE Reenumerated(_)
Reenumerated(item) ==
  IF item.kind = "File" THEN item
  ELSE [item EXCEPT !.children =
          InNameOrder({Reenumerated(item.children[i]) : i \in DOMAIN item.children})]

\* C8: the tree orderFiles returns for a snapshot is the tree it returns for
\* the same children enumerated in another order, here the order of their
\* names; names within one directory are distinct, so no two children compare
\* equal by name.
C8_EnumerationOrderIndependent ==
  (Ordered /\ reorders = 0) => result = orderFiles(orderFile, Reenumerated(arg), fs)

\* The kinds and names of a tree, level by level.
RECURSIVE Shape(_)
Shape(item) ==
  [kind |-> item.kind, name |-> item.name,
   children |-> [i \in DOMAIN item.children |-> Shape(item.children[i])]]

\* C9: ordering again the tree orderFiles returned, with the same AST,
\* returns the same sequence of items at every level.
C9_Idempotent ==
  (Ordered /\ reorders >= 1) => Shape(result) = Shape(arg)

\* The statements without the path blocks for docs/.
RECURSIVE WithoutDocsBlock(_)
WithoutDocsBlock(statements) ==
  IF statements = << >> THEN << >>
  ELSE (IF Head(statements).type = "pathBlock" /\ Head(statements).pattern = n_docs_slash
        THEN << >> ELSE << Head(statements) >>)
       \o WithoutDocsBlock(Tail(statements))

\* C10: with a docs/ path block the root listing has the items, in the
\* positions, that it has without the block, and every item but docs has the
\* contents it has without the block.
C10_DocsBlockFrame ==
  (Ordered /\ reorders = 0 /\ WithoutDocsBlock(orderFile) # orderFile) =>
    LET without == orderFiles(WithoutDocsBlock(orderFile), arg, fs) IN
    /\ NamesOf(result.children) = NamesOf(without.children)
    /\ \A k \in DOMAIN result.children :
         (k \in DOMAIN without.children /\ result.children[k].name # n_docs)
           => Shape(result.children[k]) = Shape(without.children[k])

\* ---- C11: group blocks ----

\* The elements of a set of positions, in increasing order.
RECURSIVE InIncreasingOrder(_)
InIncreasingOrder(S) ==
  IF S = {} THEN << >>
  ELSE LET least == CHOOSE i \in S : \A j \in S : i <= j IN
       << least >> \o InIncreasingOrder(S \ {least})

GroupBlocksOf(statements) == SelectSeq(statements, LAMBDA st : st.type = "groupBlock")

\* The names a group block lists.
ListedBy(block) == [i \in DOMAIN block.block |-> block.block[i].pattern]

IsPresent(name, children) == \E c \in DOMAIN children : children[c].name = name

\* The listed members of a block that are present, in listing order, each once.
PresentMembers(block, children) ==
  LET listed == ListedBy(block) IN
  [k \in DOMAIN InIncreasingOrder({i \in DOMAIN listed :
                                     /\ IsPresent(listed[i], children)
                                     /\ \A j \in 1..(i - 1) : listed[j] # listed[i]}) |->
     listed[InIncreasingOrder({i \in DOMAIN listed :
                                 /\ IsPresent(listed[i], children)
                                 /\ \A j \in 1..(i - 1) : listed[j] # listed[i]})[k]]]

\* The present members of the k-th block that no earlier block lists.
FreeMembers(blocks, k, children) ==
  SelectSeq(PresentMembers(blocks[k], children),
            LAMBDA name : \A e \in 1..(k - 1) :
                            \A i \in DOMAIN blocks[e].block : blocks[e].block[i].pattern # name)

\* The blocks that have a free member, in declaration order.
YieldingBlocks(blocks, children) ==
  InIncreasingOrder({k \in DOMAIN blocks : FreeMembers(blocks, k, children) # << >>})

NoPathBlocks(statements) == \A i \in DOMAIN statements : statements[i].type # "pathBlock"

GroupsIn(listing) == SelectSeq(listing, LAMBDA item : item.kind = "Group")

KeySign(key, a, b) ==
  IF key = s_alphabetical THEN Sign(localeCompare(a, b))
  ELSE IF key = s_reverse_alphabetical THEN Sign(localeCompare(b, a))
  ELSE IF key = s_extension THEN Sign(localeCompare(extname(a), extname(b)))
  ELSE 0

\* a is not after b: the first key that tells them apart puts a first.
NotAfter(keys, a, b) ==
  \/ \A k \in DOMAIN keys : KeySign(keys[k], a, b) = 0
  \/ \E k \in DOMAIN keys :
       /\ KeySign(keys[k], a, b) < 0
       /\ \A j \in 1..(k - 1) : KeySign(keys[j], a, b) = 0

InKeysOrder(listing, keys) ==
  \A i, j \in DOMAIN listing : i < j => NotAfter(keys, listing[i].name, listing[j].name)

KeysOf(directive) == [k \in DOMAIN directive.args |-> directive.args[k].text]

IsTiebreakerStatement(st) == st.type = "directive" /\ st.directive.name = s_tiebreaker

\* The order file is one @root block that holds one tiebreaker declaration.
IsRootTiebreaker(statements) ==
  /\ Len(statements) = 1
  /\ statements[1].type = "pathBlock"
  /\ statements[1].pattern = EmptyStr
  /\ Len(statements[1].block) = 1
  /\ IsTiebreakerStatement(statements[1].block[1])

\* C12: when the order file is a top-level @root block that declares
\* tiebreakers, the root listing is in the order of those tiebreakers.
C12_RootTiebreakerGovernsRoot ==
  (Ordered /\ IsRootTiebreaker(orderFile)) =>
    /\ Len(result.children) = Len(arg.children)
    /\ InKeysOrder(result.children, KeysOf(orderFile[1].block[1].directive))

\* C17: when the order file is one top-level tiebreaker declaration, each pair
\* of the root listing is ordered by the first of its keys that tells the two
\* apart.
C17_KeysInTurn ==
  (Ordered /\ Len(orderFile) = 1 /\ IsTiebreakerStatement(orderFile[1])) =>
    /\ Len(result.children) = Len(arg.children)
    /\ InKeysOrder(result.children, KeysOf(orderFile[1].directive))

\* Extension first puts b.css before a.js; the name decides between the two
\* css files.
C17_Witness ==
  /\ Ordered
  /\ orderFile = << DirectiveStatement(Directive(s_tiebreaker,
                                                 << At(s_extension), At(s_alphabetical) >>)) >>
  /\ NamesOf(arg.children) = << n_a_js, n_b_css, n_a_css >>
  /\ NamesOf(result.children) = << n_a_css, n_b_css, n_a_js >>

\* ---- C13, C14: tiebreakers of a block header and of a rule ----

\* The tiebreaker directives among a list of directives.
TiebreakersAmong(directives) == SelectSeq(directives, LAMBDA d : d.name = s_tiebreaker)

\* The names a block lists explicitly.
ListedIn(block) ==
  {block[i].pattern : i \in {k \in DOMAIN block : /\ block[k].type = "filePattern"
                                                  /\ block[k].directives = << >>
                                                  /\ ~isGlobPattern(block[k].pattern)}}

\* The path block at position i is the first to name the directory d.
ClaimsDirectory(statements, i, d) ==
  /\ statements[i].type = "pathBlock"
  /\ d.kind = "Directory"
  /\ stripSlash(statements[i].pattern) = d.name
  /\ \A j \in 1..(i - 1) :
       ~(statements[j].type = "pathBlock" /\ stripSlash(statements[j].pattern) = d.name)

\* C13: the children of a directory claimed by a path block whose header
\* declares tiebreakers, other than those the block lists, are in the order of
\* the header's tiebreakers.
C13_HeaderTiebreakerOrdersClaimed ==
  Ordered =>
    \A i \in DOMAIN orderFile : \A c \in DOMAIN result.children :
      (/\ ClaimsDirectory(orderFile, i, result.children[c])
       /\ TiebreakersAmong(orderFile[i].blockDirectives) # << >>) =>
        InKeysOrder(SelectSeq(result.children[c].children,
                              LAMBDA item : item.name \notin ListedIn(orderFile[i].block)),
                    KeysOf(TiebreakersAmong(orderFile[i].blockDirectives)[1]))

\* The Files of a listing that a rule's pattern matches are in the order of the
\* tiebreakers the rule carries.
InRuleOrder(st, listing) ==
  (st.type = "filePattern" /\ TiebreakersAmong(st.directives) # << >>) =>
    InKeysOrder(SelectSeq(listing, LAMBDA item : /\ item.kind = "File"
                                                 /\ minimatch(item.name, st.pattern)),
                KeysOf(TiebreakersAmong(st.directives)[1]))

\* C14: when the order file is one rule that carries tiebreakers, or one path
\* block holding such a rule, the files the rule matches are, among themselves,
\* in the order of the rule's tiebreakers.
C14_RuleTiebreakerOrdersMatched ==
  (Ordered /\ Len(orderFile) = 1) =>
    /\ InRuleOrder(orderFile[1], result.children)
    /\ (orderFile[1].type = "pathBlock" /\ Len(orderFile[1].block) = 1) =>
         \A c \in DOMAIN result.children :
           ClaimsDirectory(orderFile, 1, result.children[c]) =>
             InRuleOrder(orderFile[1].block[1], result.children[c].children)

\* ---- C15, C16: @type and the category markers ----

KindName(item) ==
  IF item.kind = "Directory" THEN s_folders
  ELSE IF item.kind = "Group" THEN s_groups ELSE s_files

\* The rank of an item under the listed kinds: its position among them, and
\* after all of them, in the default order, when its kind is not listed.
RankUnder(kinds, item) ==
  IF \E k \in DOMAIN kinds : kinds[k] = KindName(item)
  THEN CHOOSE k \in DOMAIN kinds : kinds[k] = KindName(item)
  ELSE Len(kinds) + KindRank(item)

IsTypeStatement(st) == st.type = "directive" /\ st.directive.name = s_type

\* C15: when the order file is one @type declaration and group blocks, the
\* root listing has the listed kinds first, in listed order, and the other
\* kinds after them, directories before groups before files.
C15_ListedKindsFirst ==
  (/\ Ordered
   /\ Len(SelectSeq(orderFile, IsTypeStatement)) = 1
   /\ \A i \in DOMAIN orderFile :
        IsTypeStatement(orderFile[i]) \/ orderFile[i].type = "groupBlock") =>
    \A i, j \in DOMAIN result.children :
      i < j =>
        RankUnder(KeysOf(SelectSeq(orderFile, IsTypeStatement)[1].directive),
                  result.children[i])
          <= RankUnder(KeysOf(SelectSeq(orderFile, IsTypeStatement)[1].directive),
                       result.children[j])

IsMarker(st) ==
  st.type = "filePattern" /\ st.pattern \in {s_at_files, s_at_folders, s_at_groups}

\* C16: when the order file is made of category markers, the scope's type
\* order is their kinds in the order written, and the scope has no explicit
\* order and no rule.
C16_MarkersSetTypeOrder ==
  (Ordered /\ \A i \in DOMAIN orderFile : IsMarker(orderFile[i])) =>
    /\ processStatements(orderFile, EmptyStr).typeOrder
         = [i \in DOMAIN orderFile |-> Tail(orderFile[i].pattern)]
    /\ processStatements(orderFile, EmptyStr).explicitOrder = << >>
    /\ processStatements(orderFile, EmptyStr).rules = << >>

\* ---- C18: group names ----

\* The listings of a tree: the children of every Directory in it.
RECURSIVE ListingsOf(_)
ListingsOf(item) ==
  IF item.kind = "Directory"
  THEN {item.children} \cup UNION {ListingsOf(item.children[i]) : i \in DOMAIN item.children}
  ELSE {}

\* C18: no listing of the returned tree holds two Groups of the same name.
C18_GroupNamesUnique ==
  Ordered =>
    \A listing \in ListingsOf(result) :
      \A i, j \in DOMAIN listing :
        (/\ i # j
         /\ listing[i].kind = "Group"
         /\ listing[j].kind = "Group") => listing[i].name # listing[j].name

\* ---- C19, C20: unknown directives and malformed regular expressions ----

KnownDirectives ==
  {s_required, s_tiebreaker, s_group, s_group_by, s_hidden, s_allow_if, s_disallow_if}

\* The order file with the directives of unknown name taken off its file
\* patterns.
WithoutUnknownDirectives(statements) ==
  [i \in DOMAIN statements |->
     IF statements[i].type = "filePattern"
     THEN [statements[i] EXCEPT !.directives = SelectSeq(@, LAMBDA d : d.name \in KnownDirectives)]
     ELSE statements[i]]

\* C19: orderFiles and validateRequiredFiles give what they give for the order
\* file without its directives of unknown name.
C19_UnknownDirectiveIsNoOp ==
  /\ (op = "orderFiles" /\ reorders = 0) =>
       result = orderFiles(WithoutUnknownDirectives(orderFile), arg, fs)
  /\ Validated => missing = validateRequiredFiles(WithoutUnknownDirectives(orderFile), arg)

\* A file pattern whose pattern or directive argument is a malformed regular
\* expression.
HasMalformedRegExp(st) ==
  /\ st.type = "filePattern"
  /\ \/ createPatternThrows(st.pattern)
     \/ \E k \in DOMAIN st.directives : applyDirectiveThrows(st.directives[k])

\* C20: orderFiles returns the tree it returns for the order file without the
\* rules that hold a malformed regular expression.
C20_MalformedRegexContained ==
  (op = "orderFiles" /\ reorders = 0) =>
    result = orderFiles(SelectSeq(orderFile, LAMBDA st : ~HasMalformedRegExp(st)), arg, fs)

\* ---- C30: the host's processor and the .order file ----

\* C30: right after refresh() the processor in use is the one of the .order
\* file's current contents: none when the file is absent or does not parse,
\* else one built from its statements.
C30_ProcessorTracksOrderFile ==
  op = "refresh" =>
    IF dotOrder.exists /\ dotOrder.parses
    THEN orderProcessor # "null" /\ orderFile = dotOrder.statements
    ELSE orderProcessor = "null"

\* ---- C28: File states across calls ----

\* C28: a File of the returned tree is Disallowed only if a rule of the order
\* file in use matches it and marks it Disallowed.
C28_NoStateSurvives ==
  Ordered =>
    \A f \in FilesOf(result) :
      f.state = "Disallowed" =>
        \E i \in DOMAIN orderFile :
          /\ orderFile[i].type = "filePattern"
          /\ minimatch(f.name, orderFile[i].pattern)
          /\ StateUnder(orderFile[i], f.name) = "Disallowed"

\* ---- C21: failed stat lookups ----

StatKeys == {s_size, s_modified, s_created}

\* The position of the child of that name in a listing.
PositionIn(listing, name) == CHOOSE i \in DOMAIN listing : listing[i].name = name

\* C21: a size, modified or created comparison of a pair for which a stat
\* lookup fails gives 0, and orderFiles returns a tree; when every lookup
\* fails, the root listing under one tiebreaker declaration is in the order of
\* the other keys, the children no key tells apart keeping their order.
C21_FailedStatIsEqual ==
  op = "orderFiles" =>
    /\ result.kind = "Directory"
    /\ \A a, b \in DOMAIN arg.children : \A key \in StatKeys :
         (arg.children[a].path \notin DOMAIN fs \/ arg.children[b].path \notin DOMAIN fs)
           => tiebreak(key, arg.children[a], arg.children[b], fs) = 0
    /\ (/\ reorders = 0
        /\ Len(orderFile) = 1
        /\ IsTiebreakerStatement(orderFile[1])
        /\ \A c \in DOMAIN arg.children : arg.children[c].path \notin DOMAIN fs) =>
         /\ Len(result.children) = Len(arg.children)
         /\ \A i, j \in DOMAIN result.children :
              i < j =>
                /\ NotAfter(KeysOf(orderFile[1].directive),
                            result.children[i].name, result.children[j].name)
                /\ NotAfter(KeysOf(orderFile[1].directive),
                            result.children[j].name, result.children[i].name)
                     => PositionIn(arg.children, result.children[i].name)
                          < PositionIn(arg.children, result.children[j].name)

\* b.txt has no stat: size ties it with its neighbours, whatever their sizes,
\* and the name decides.
C21_Witness ==
  /\ Ordered
  /\ orderFile = << DirectiveStatement(Directive(s_tiebreaker,
                                                 << At(s_size), At(s_alphabetical) >>)) >>
  /\ NamesOf(arg.children) = << n_c_txt, n_b_txt >>
  /\ DOMAIN fs = {FileIn(RootPath, n_c_txt).path}
  /\ NamesOf(result.children) = << n_b_txt, n_c_txt >>

\* ---- C22, C23: the Groups of rules ----

NoGroupBlocks(statements) == \A i \in DOMAIN statements : statements[i].type # "groupBlock"

\* C22: in a scope without blocks, ordering children that hold no Group, the
\* Groups of the root listing are in ascending order of their names.
C22_RuleGroupsAlphabetical ==
  (/\ Ordered
   /\ NoPathBlocks(orderFile)
   /\ NoGroupBlocks(orderFile)
   /\ GroupsIn(arg.children) = << >>) =>
    \A i, j \in DOMAIN GroupsIn(result.children) :
      i < j => localeCompare(GroupsIn(result.children)[i].name,
                             GroupsIn(result.children)[j].name) < 0

\* The statement is a rule that buckets by a regular expression.
IsGroupByRegExp(st) ==
  /\ st.type = "filePattern"
  /\ Len(st.directives) = 1
  /\ st.directives[1].name = s_group_by
  /\ ~st.directives[1].args[1].isDirective
  /\ IsRegexLiteral(st.directives[1].args[1].text)

\* The Groups of a listing that hold a File of that name.
GroupsHolding(listing, name) ==
  {g \in DOMAIN listing :
     /\ listing[g].kind = "Group"
     /\ \E k \in DOMAIN listing[g].children : listing[g].children[k].name = name}

\* C23: when the first statement is a group_by(/regex/) rule and no later one
\* lists a name, a File the rule's pattern matches is in the Group named by
\* its capture group 1 when that is not empty, and otherwise in a Group that
\* holds only files without a capture.
C23_RegexBuckets ==
  (/\ Ordered
   /\ Len(orderFile) >= 1
   /\ IsGroupByRegExp(orderFile[1])
   /\ \A i \in DOMAIN orderFile : ~IsListed(orderFile, orderFile[i].pattern)
   /\ GroupsIn(arg.children) = << >>) =>
    \A c \in DOMAIN arg.children :
      (arg.children[c].kind = "File"
       /\ minimatch(arg.children[c].name, orderFile[1].pattern)) =>
        \E g \in GroupsHolding(result.children, arg.children[c].name) :
          IF RegExpGroup1(Slice1(orderFile[1].directives[1].args[1].text),
                          arg.children[c].name) # << >>
          THEN result.children[g].name
                 = RegExpGroup1(Slice1(orderFile[1].directives[1].args[1].text),
                                arg.children[c].name)
          ELSE \A k \in DOMAIN result.children[g].children :
                 RegExpGroup1(Slice1(orderFile[1].directives[1].args[1].text),
                              result.children[g].children[k].name) = << >>

\* ---- C24: the explicit order comes before the rules ----

\* The statement lists a literal name.
IsLiteralListing(st) ==
  st.type = "filePattern" /\ st.directives = << >> /\ ~isGlobPattern(st.pattern)

\* Every statement is a literal listing or a rule with directives.
ListingsAndRules(statements) ==
  \A i \in DOMAIN statements :
    /\ statements[i].type = "filePattern"
    /\ (statements[i].directives = << >> => ~isGlobPattern(statements[i].pattern))

\* The other names listed before statement i that some child bears.
ListedBefore(statements, i, children) ==
  {statements[j].pattern : j \in {j \in 1..(i - 1) :
     /\ IsLiteralListing(statements[j])
     /\ statements[j].pattern # statements[i].pattern
     /\ \E c \in DOMAIN children : children[c].name = statements[j].pattern}}

\* Some rule of the scope with directives matches the name.
MatchedByRule(statements, name) ==
  \E k \in DOMAIN statements :
    /\ statements[k].type = "filePattern"
    /\ statements[k].directives # << >>
    /\ minimatch(name, statements[k].pattern)

C25_SortedAsAWhole ==
  (Ordered /\ ListingsAndRules(orderFile) /\ GroupsIn(arg.children) = << >>) =>
    \A i, j \in DOMAIN result.children :
      (/\ i < j
       /\ result.children[i].kind = result.children[j].kind
       /\ ~IsListed(orderFile, result.children[i].name)
       /\ ~IsListed(orderFile, result.children[j].name)) =>
        localeCompare(result.children[i].name, result.children[j].name) <= 0

\* ---- C27: rules inside a path block ----

\* The order file is one docs/ block that holds one rule.
IsDocsRule(statements) ==
  /\ Len(statements) = 1
  /\ statements[1].type = "pathBlock"
  /\ statements[1].pattern = n_docs_slash
  /\ statements[1].blockDirectives = << >>
  /\ Len(statements[1].block) = 1
  /\ statements[1].block[1].type = "filePattern"
  /\ statements[1].block[1].directives # << >>

\* What the rule st makes of the file in the listing of its directory: hidden,
\* marked, or in the Group of its basename.
RuleApplied(st, file, listing) ==
  IF HasDirective(st, s_hidden) THEN file.name \notin ShownNames(listing)
  ELSE IF GroupsByBasename(st)
    THEN \E g \in GroupsHolding(listing, file.name) :
           listing[g].name = UpToFirstDot(file.name)
  ELSE \E k \in DOMAIN listing :
         /\ listing[k].kind = "File"
         /\ listing[k].name = file.name
         /\ listing[k].state = StateUnder(st, file.name)

\* C27: when the order file is a docs/ block that holds one rule, every File
\* directly inside docs that the rule's pattern matches is hidden, marked or
\* grouped by the rule in the listing of docs.
C27_BlockRulesReachChildren ==
  (Ordered /\ IsDocsRule(orderFile)) =>
    \A d \in DOMAIN arg.children, r \in DOMAIN result.children :
      (/\ arg.children[d].kind = "Directory"
       /\ arg.children[d].name = n_docs
       /\ GroupsIn(arg.children[d].children) = << >>
       /\ result.children[r].kind = "Directory"
       /\ result.children[r].name = n_docs) =>
        \A c \in DOMAIN arg.children[d].children :
          (/\ arg.children[d].children[c].kind = "File"
           /\ minimatch(arg.children[d].children[c].name, orderFile[1].block[1].pattern)) =>
            RuleApplied(orderFile[1].block[1], arg.children[d].children[c],
                        result.children[r].children)

\* ---- C26: subdirectories that no path block claims ----

\* A listing is in the built-in default order at every depth: directories
\* before files, each kind in ascending order of names.
RECURSIVE InDefaultOrder(_)
InDefaultOrder(listing) ==
  /\ \A i, j \in DOMAIN listing :
       i < j =>
         /\ KindRank(listing[i]) <= KindRank(listing[j])
         /\ listing[i].kind = listing[j].kind
              => localeCompare(listing[i].name, listing[j].name) < 0
  /\ \A k \in DOMAIN listing :
       listing[k].kind = "Directory" => InDefaultOrder(listing[k].children)

\* The names of a tree below its root, level by level, as sets.
RECURSIVE NamesBelow(_)
NamesBelow(item) ==
  {<< item.children[k].name, NamesBelow(item.children[k]) >> : k \in DOMAIN item.children}

\* Without path blocks, a subdirectory of the root comes out as it does when
\* the order file is empty: nothing of the root scope reaches its children.
UnclaimedUnderEmptyScope ==
  (Ordered /\ NoPathBlocks(orderFile) /\ GroupsIn(arg.children) = << >>) =>
    \A d \in DOMAIN arg.children, r \in DOMAIN result.children :
      (/\ arg.children[d].kind = "Directory"
       /\ result.children[r].kind = "Directory"
       /\ result.children[r].name = arg.children[d].name) =>
        result.children[r].children
          = orderFiles(<< >>, arg.children[d], fs).children

\* C26: without path blocks, a subdirectory of the root is ordered as under
\* an empty order file, keeps all of its contents and lists them in the
\* built-in default order at every depth.
C26_UnclaimedInDefaultOrder ==
  /\ UnclaimedUnderEmptyScope
  /\ (Ordered /\ NoPathBlocks(orderFile) /\ GroupsIn(arg.children) = << >>) =>
    \A d \in DOMAIN arg.children, r \in DOMAIN result.children :
      (/\ arg.children[d].kind = "Directory"
       /\ result.children[r].kind = "Directory"
       /\ result.children[r].name = arg.children[d].name) =>
        /\ NamesBelow(result.children[r]) = NamesBelow(arg.children[d])
        /\ InDefaultOrder(result.children[r].children)

\* ---- C29: the comparator ----

\* The comparator of the root scope applied to two items.
RootCompare(a, b) ==
  compare(a, b, processStatements(orderFile, EmptyStr).tiebreakers,
          processStatements(orderFile, EmptyStr).typeOrder, fs)

\* C29: over the items of the root listing, the comparator of a root scope
\* whose tiebreakers need no stat lookup is antisymmetric and transitive.
C29_ComparatorConsistent ==
  (/\ Ordered
   /\ ~processStatements(orderFile, EmptyStr).threw
   /\ \A k \in DOMAIN processStatements(orderFile, EmptyStr).tiebreakers :
        processStatements(orderFile, EmptyStr).tiebreakers[k] \notin StatKeys) =>
    \A a, b, c \in {result.children[k] : k \in DOMAIN result.children} :
      /\ Sign(RootCompare(a, b)) = 0 - Sign(RootCompare(b, a))
      /\ (RootCompare(a, b) < 0 /\ RootCompare(b, c) < 0) => RootCompare(a, c) < 0

====
